---- MODULE Spec2Model ----
(***************************************************************************)
(* ydag: the task-graph execution engine of src/ydag/task.py.              *)
(*                                                                         *)
(* One DagRun is modelled on one asyncio event loop.  Every invocation of  *)
(* the coroutine DagRun.run is a frame; a frame runs from one suspension   *)
(* point to the next without interruption (cooperative scheduling), which  *)
(* the variable cur expresses: cur is the frame that holds the loop, 0     *)
(* when the loop is between callbacks.  The loop runs its ready handles in *)
(* the order they were scheduled (call_soon); a suspended work function    *)
(* may be woken at any time between two handles.                           *)
(*                                                                         *)
(* Python values: None is encoded as -1, integers are naturals, True is 1  *)
(* and False is 0 (as in Python, True == 1).                               *)
(***************************************************************************)
EXTENDS Integers, Sequences, FiniteSets, TLC

VARIABLES prog, results, running_tasks, frames, cur, ready, calls, requests, observed,
          called, instances, graph, poll

vars == <<prog, results, running_tasks, frames, cur, ready, calls, requests, observed,
          called, instances, graph, poll>>

(* What lies beside the DagRun under study: the last call the caller made *)
(* on a Trigger or on a Task property, the Task and DagRun objects of the  *)
(* process, and the Dag of dag.py with its polling DagRun.                 *)
aside == <<called, instances, graph, poll>>

(* Number of DagRun.run calls the caller of the engine makes in one run. *)
MaxRequests == 2

None == -1

NoError == "None"

TruthyInverted(v) == v = None \/ v = 0

TruthyOfNone(v) == v # 0

Truthy(v) == v # None /\ v # 0

(* ---------------------------------------------------------------------- *)
(* Task declarations                                                      *)
(* ---------------------------------------------------------------------- *)

StaticSkip(b) == [kind |-> "bool", val |-> b, id |-> ""]

TaskSkip(t) == [kind |-> "task", val |-> FALSE, id |-> t]

StaticArg(v) == [kind |-> "static", val |-> v, id |-> "", steps |-> <<>>]

TaskRef(t) == [kind |-> "task", val |-> None, id |-> t, steps |-> <<>>]

(* A TaskTransform chain over root task t; steps run innermost first. *)
Transform(t, steps) == [kind |-> "transform", val |-> None, id |-> t, steps |-> steps]

(* t.transform(f): a mapping function and no alternative. *)
Map(f) == [f |-> f, alt |-> None]

(* t.or_else(d): an alternative and no mapping function. *)
OrElse(d) == [f |-> "None", alt |-> d]

Task(skip, csf, wait, args, work, val, susp) ==
    [skip |-> skip, check_skip_first |-> csf, wait_on |-> wait, args |-> args,
     work |-> work, val |-> val, suspends |-> susp]

TaskIds == DOMAIN prog

has_skip_task(t) == prog[t].skip.kind = "task"

needs_to_run_skip_task_first(t) ==
    prog[t].skip.kind = "task" /\ prog[t].check_skip_first

should_be_skipped_never(t) == FALSE

(* Only evaluated where the gate is a static boolean. *)
should_be_skipped(t) == prog[t].skip.val

(* Only evaluated where the gate is a task. *)
skip_task(t) == prog[t].skip.id

get_run_kwargs_before_execution(t) == prog[t].args

IsTaskArg(a) == a.kind = "task"

IsTransformArg(a) == a.kind = "transform"

RECURSIVE ArgIds(_)
ArgIds(s) == IF s = <<>> THEN <<>> ELSE <<Head(s).id>> \o ArgIds(Tail(s))

upstream_tasks_without_wait_on(t) ==
    (IF prog[t].skip.kind = "task" THEN <<prog[t].skip.id>> ELSE <<>>)
    \o ArgIds(SelectSeq(get_run_kwargs_before_execution(t), IsTaskArg))
    \o ArgIds(SelectSeq(get_run_kwargs_before_execution(t), IsTransformArg))

upstream_tasks(t) ==
    (IF prog[t].skip.kind = "task" THEN <<prog[t].skip.id>> ELSE <<>>)
    \o prog[t].wait_on
    \o ArgIds(SelectSeq(get_run_kwargs_before_execution(t), IsTaskArg))
    \o ArgIds(SelectSeq(get_run_kwargs_before_execution(t), IsTransformArg))

Range(s) == {s[i] : i \in DOMAIN s}

(* ---------------------------------------------------------------------- *)
(* Results, transforms, input assembly                                    *)
(* ---------------------------------------------------------------------- *)

TaskResult(state, value, error) == [state |-> state, value |-> value, error |-> error]

FailedStates == {"FAILED", "UPSTREAM_FAILED"}

SkippedStates == {"SKIPPED", "UPSTREAM_SKIPPED"}

(* The mapping functions of the transforms: "inc" is lambda x: x + 1 and   *)
(* "dbl" is lambda x: x * 2; calling the absent function of or_else and    *)
(* arithmetic on None raise TypeError.                                     *)
ApplyFunc(f, v) ==
    IF f = "None" THEN [value |-> None, error |-> "TypeError"]
    ELSE IF f = "inc"
         THEN IF v = None THEN [value |-> None, error |-> "TypeError"]
              ELSE [value |-> v + 1, error |-> NoError]
    ELSE IF f = "dbl"
         THEN IF v = None THEN [value |-> None, error |-> "TypeError"]
              ELSE [value |-> v * 2, error |-> NoError]
    ELSE [value |-> None, error |-> "ValueError"]

(* TaskTransform.apply on the first n steps of a chain.  The outcome has   *)
(* error # NoError when apply raises, and the value it returns otherwise.  *)
RECURSIVE apply(_, _, _)
apply(steps, n, upstream_result) ==
    LET inner == IF n > 1 THEN apply(steps, n - 1, upstream_result)
                 ELSE [value |-> upstream_result.value, error |-> NoError,
                       upstream_error |-> upstream_result.error]
    IN IF n > 1 /\ inner.error # NoError THEN inner
       ELSE IF steps[n].alt # None /\ inner.upstream_error # NoError
            THEN [value |-> steps[n].alt, error |-> NoError, upstream_error |-> NoError]
       ELSE LET r == ApplyFunc(steps[n].f, inner.value)
            IN [value |-> r.value, error |-> r.error, upstream_error |-> NoError]

get_result_of_nothing(res, t) == TaskResult("CREATED", None, NoError)

get_result(res, t) == res[t]

gather_value_untransformed(res, a) ==
    IF a.kind = "static" THEN [value |-> a.val, error |-> NoError]
    ELSE [value |-> get_result(res, a.id).value, error |-> NoError]

gather_value(res, a) ==
    IF a.kind = "task"
    THEN [value |-> get_result(res, a.id).value, error |-> NoError]
    ELSE IF a.kind = "transform"
    THEN LET r == apply(a.steps, Len(a.steps), get_result(res, a.id))
         IN [value |-> r.value, error |-> r.error]
    ELSE [value |-> a.val, error |-> NoError]

(* ---------------------------------------------------------------------- *)
(* Work functions (the task classes of src/tests/test_task.py)            *)
(* ---------------------------------------------------------------------- *)

Work(t, kwargs, n) ==
    LET d == prog[t]
    IN CASE d.work = "const" -> [value |-> d.val, error |-> NoError]
         [] d.work = "fail" -> [value |-> None, error |-> "ValueError"]
         [] d.work = "inc" -> [value |-> n, error |-> NoError]
         [] d.work = "addone" ->
              IF kwargs[1] = None THEN [value |-> None, error |-> "TypeError"]
              ELSE [value |-> kwargs[1] + 1, error |-> NoError]
         [] d.work = "add" ->
              IF kwargs[1] = None \/ kwargs[2] = None
              THEN [value |-> None, error |-> "TypeError"]
              ELSE [value |-> kwargs[1] + kwargs[2], error |-> NoError]

(* ---------------------------------------------------------------------- *)
(* Programs: the task graphs a run is started on                          *)
(* ---------------------------------------------------------------------- *)

NoSkip == StaticSkip(FALSE)

(* test_single_execution: one feeds two and also_two, both feed four. *)
Diamond(susp) ==
    [one |-> Task(NoSkip, FALSE, <<>>, <<>>, "inc", None, susp),
     two |-> Task(NoSkip, FALSE, <<>>, <<TaskRef("one")>>, "addone", None, FALSE),
     also_two |-> Task(NoSkip, FALSE, <<>>, <<TaskRef("one")>>, "addone", None, FALSE),
     four |-> Task(NoSkip, FALSE, <<>>, <<TaskRef("two"), TaskRef("also_two")>>,
                   "add", None, FALSE)]

(* test_skip_first, test_dependent_skip_task, test_failed_skip: gated has  *)
(* the skip gate gate and the named input other; down consumes gated.      *)
Gated(gwork, gval, csf, susp, oval, arg) ==
    [gate |-> Task(NoSkip, FALSE, <<>>, <<>>, gwork, gval, susp),
     other |-> Task(NoSkip, FALSE, <<>>, <<>>, "const", oval, FALSE),
     gated |-> Task(TaskSkip("gate"), csf, <<>>, <<arg>>, "addone", None, FALSE),
     down |-> Task(NoSkip, FALSE, <<>>, <<TaskRef("gated")>>, "addone", None, FALSE)]

(* test_simple_dag_run, test_simple_skip: a chain with static skip gates. *)
Chain(work1, skip1, skip2) ==
    [one |-> Task(StaticSkip(skip1), FALSE, <<>>, <<>>, work1, 1, FALSE),
     two |-> Task(StaticSkip(skip2), FALSE, <<>>, <<TaskRef("one")>>, "addone", None, FALSE),
     three |-> Task(NoSkip, FALSE, <<>>, <<TaskRef("two")>>, "addone", None, FALSE)]

(* A join over an upstream that may fail and one that may be skipped,     *)
(* declared as named inputs or as wait_on links.                          *)
Join(awork, bskip, viaWait, susp) ==
    [a |-> Task(NoSkip, FALSE, <<>>, <<>>, awork, 1, susp),
     b |-> Task(StaticSkip(bskip), FALSE, <<>>, <<>>, "const", 1, FALSE),
     join |-> IF viaWait
              THEN Task(NoSkip, FALSE, <<"a", "b">>, <<>>, "const", 1, FALSE)
              ELSE Task(NoSkip, FALSE, <<>>, <<TaskRef("a"), TaskRef("b")>>, "add", None, FALSE)]

(* test_simple_dag_run_with_transformation: a Transform chain as input. *)
Chains == {<<Map("inc"), Map("inc")>>, <<Map("inc"), Map("dbl")>>, <<OrElse(5)>>,
           <<Map("inc"), OrElse(5)>>, <<OrElse(5), Map("inc")>>}

Transformed(rwork, rval, steps) ==
    [root |-> Task(NoSkip, FALSE, <<>>, <<>>, rwork, rval, FALSE),
     user |-> Task(NoSkip, FALSE, <<>>, <<Transform("root", steps)>>, "addone", None, FALSE)]

(* test_failed_skip: a failing gate on a task that runs the gate first and *)
(* on a task that runs it with the other upstream tasks.                   *)
FailedGate ==
    [gate |-> Task(NoSkip, FALSE, <<>>, <<>>, "fail", None, FALSE),
     other |-> Task(NoSkip, FALSE, <<>>, <<>>, "const", 1, FALSE),
     early |-> Task(TaskSkip("gate"), TRUE, <<>>, <<TaskRef("other")>>, "addone", None, FALSE),
     late |-> Task(TaskSkip("gate"), FALSE, <<>>, <<TaskRef("other")>>, "addone", None, FALSE)]

(* One upstream task referenced by two named inputs, or by a named input   *)
(* and the wait_on list.                                                   *)
Shared(viaWait) ==
    [one |-> Task(NoSkip, FALSE, <<>>, <<>>, "const", 1, FALSE),
     mid |-> Task(NoSkip, FALSE, <<>>, <<TaskRef("one")>>, "addone", None, FALSE),
     top |-> IF viaWait
             THEN Task(NoSkip, FALSE, <<"mid">>, <<TaskRef("mid")>>, "addone", None, FALSE)
             ELSE Task(NoSkip, FALSE, <<>>, <<TaskRef("mid"), TaskRef("mid")>>, "add", None, FALSE)]

(* A join that is itself constructed with skip=True. *)
SkippedJoin ==
    [a |-> Task(NoSkip, FALSE, <<>>, <<>>, "fail", None, FALSE),
     b |-> Task(NoSkip, FALSE, <<>>, <<>>, "const", 1, FALSE),
     join |-> Task(StaticSkip(TRUE), FALSE, <<>>, <<TaskRef("a"), TaskRef("b")>>,
                   "add", None, FALSE)]

Programs ==
    {Diamond(FALSE), FailedGate, Shared(FALSE), Shared(TRUE), SkippedJoin}
    \cup {Gated(w[1], w[2], c, FALSE, 1, TaskRef("other")) :
            w \in {<<"const", 1>>, <<"const", 0>>, <<"fail", None>>}, c \in BOOLEAN}
    \cup {Gated("const", 1, TRUE, TRUE, 1, TaskRef("other"))}
    \cup {Gated("const", v, c, FALSE, None, Transform("other", <<Map("inc")>>)) :
            v \in {0, 1}, c \in BOOLEAN}
    \cup {Chain(w, s1, s2) : w \in {"const", "fail"}, s1 \in BOOLEAN, s2 \in BOOLEAN}
    \cup {Join(w, s, v, FALSE) : w \in {"const", "fail"}, s \in BOOLEAN, v \in BOOLEAN}
    \cup {Join("const", FALSE, FALSE, TRUE), Join("fail", TRUE, TRUE, TRUE)}
    \cup {Transformed(w[1], w[2], c) :
            w \in {<<"const", 1>>, <<"const", None>>, <<"fail", None>>},
            c \in Chains}

(* ---------------------------------------------------------------------- *)
(* DagRun                                                                 *)
(* ---------------------------------------------------------------------- *)

NewFrame(t, p, inl) ==
    [task |-> t, pc |-> "start", parent |-> p, inline |-> inl,
     kwargs |-> <<>>, bound |-> FALSE, ret |-> TaskResult("CREATED", None, NoError),
     log |-> "created"]

(* The caller has not asked for the Result of a task yet. *)
NoLookup == [asked |-> FALSE, result |-> TaskResult("CREATED", None, NoError), error |-> NoError]

(* No call made yet on a Trigger or on a Task property. *)
NoCall == [name |-> "", self |-> "", args |-> <<>>, value |-> "", error |-> NoError]

(* Dag.__init__ of dag.py: an empty nx.DiGraph, no call made on it. *)
NoGraph == [nodes |-> <<>>, edges |-> <<>>, error |-> NoError]

(* No DagRun of dag.py constructed. *)
NoPoll == [tis |-> <<>>, predecessors |-> "list", state |-> "CREATED", error |-> NoError,
           raised |-> ""]

(* No task resolved yet by any DagRun object. *)
NoResolution == [run |-> 0, task |-> 0, log |-> ""]

(* No Task object and no DagRun object constructed. *)
NoInstances ==
    [tasks |-> <<>>, hashes |-> <<>>, runs |-> <<>>, stores |-> <<>>, work |-> <<>>,
     last |-> NoResolution]

(* DagRun.__init__: no task running, no result. *)
Init ==
    /\ prog \in Programs
    /\ results = <<>>
    /\ running_tasks = <<>>
    /\ frames = <<>>
    /\ cur = 0
    /\ ready = <<>>
    /\ calls = [t \in DOMAIN prog |-> 0]
    /\ requests = 0
    /\ observed = [t \in DOMAIN prog |-> NoLookup]
    /\ called = NoCall
    /\ instances = NoInstances
    /\ graph = NoGraph
    /\ poll = NoPoll

(* self._results[task] = r *)
Store(res, t, r) == [k \in DOMAIN res \cup {t} |-> IF k = t THEN r ELSE res[k]]

GatherChildrenAndOwner(fr, p) == {g \in DOMAIN fr : fr[g].parent = p /\ ~fr[g].inline} \cup {p}

(* The children a frame created with asyncio.create_task for its gather. *)
GatherChildren(fr, p) == {g \in DOMAIN fr : fr[g].parent = p /\ ~fr[g].inline}

(* logging.debug / logging.warning: the last message of an invocation. *)
Log(fr, f, msg) == [fr EXCEPT ![f].log = msg]

StepHandle(f) == [kind |-> "step", f |-> f]

DoneHandle(f) == [kind |-> "done", f |-> f]

(* The coroutine of frame f returns.  A coroutine awaited directly hands   *)
(* the loop back to its caller; one wrapped in an asyncio task completes   *)
(* it, which schedules the done callback of the gather it belongs to.      *)
Return(f, fr) ==
    IF fr[f].inline
    THEN /\ frames' = [fr EXCEPT ![f].pc = "done"]
         /\ cur' = fr[f].parent
         /\ ready' = ready
    ELSE IF fr[f].parent = 0
    THEN /\ frames' = [fr EXCEPT ![f].pc = "done"]
         /\ cur' = 0
         /\ ready' = ready
    ELSE /\ frames' = [fr EXCEPT ![f].pc = "returned"]
         /\ cur' = 0
         /\ ready' = Append(ready, DoneHandle(f))

(* The caller: asyncio.run(run.run(t)) or asyncio.create_task(run.run(t)).  *)
(* The caller asks in batches: several calls in a row before any of them   *)
(* has run, and again whenever the loop has nothing scheduled (the run is  *)
(* over, or every invocation left is suspended in its work function); it   *)
(* reads Results after its last call.                                      *)
Request(t) ==
    /\ cur = 0
    /\ requests < MaxRequests
    /\ \A u \in TaskIds : ~observed[u].asked
    /\ ready = <<>> \/ \A f \in DOMAIN frames : frames[f].pc = "start"
    /\ requests' = requests + 1
    /\ frames' = Append(frames, NewFrame(t, 0, FALSE))
    /\ ready' = Append(ready, StepHandle(Len(frames) + 1))
    /\ UNCHANGED <<prog, aside, observed, results, running_tasks, cur, calls>>

(* The caller reads a Result once its calls have returned: the dictionary *)
(* lookup self._results[task] raises KeyError for a task without entry.    *)
GetResult(t) ==
    /\ cur = 0
    /\ ready = <<>>
    /\ \A f \in DOMAIN frames : frames[f].pc = "done"
    /\ observed' = [observed EXCEPT ![t] =
                       IF t \in DOMAIN results
                       THEN [asked |-> TRUE, result |-> get_result(results, t), error |-> NoError]
                       ELSE [asked |-> TRUE, result |-> NoLookup.result, error |-> "KeyError"]]
    /\ UNCHANGED <<prog, aside, results, running_tasks, frames, cur, ready, calls, requests>>

(* The event loop runs its next handle: it steps a coroutine. *)
Resume(f) ==
    /\ cur = 0
    /\ ready # <<>>
    /\ Head(ready) = StepHandle(f)
    /\ cur' = f
    /\ ready' = Tail(ready)
    /\ UNCHANGED <<prog, aside, observed, results, running_tasks, frames, calls, requests>>

(* The event loop runs its next handle: the done callback of gather for    *)
(* child f; with the last child the gather completes and wakes its owner.  *)
GatherCallback(f) ==
    /\ cur = 0
    /\ ready # <<>>
    /\ Head(ready) = DoneHandle(f)
    /\ LET done == [frames EXCEPT ![f].pc = "done"]
           p == frames[f].parent
       IN /\ frames' = done
          /\ ready' = IF \A g \in GatherChildren(done, p) : done[g].pc = "done"
                      THEN Append(Tail(ready), StepHandle(p))
                      ELSE Tail(ready)
    /\ UNCHANGED <<prog, aside, observed, results, running_tasks, cur, calls, requests>>

TimerFiresInStartOrder(f) ==
    /\ cur = 0
    /\ frames[f].pc = "sleeping"
    /\ \A g \in 1..(f - 1) : frames[g].pc # "sleeping"
    /\ frames' = [frames EXCEPT ![f].pc = "work_ret"]
    /\ ready' = Append(ready, StepHandle(f))
    /\ UNCHANGED <<prog, aside, observed, results, running_tasks, cur, calls, requests>>

(* The sleep of a suspended work function ends. *)
TimerFires(f) ==
    /\ cur = 0
    /\ frames[f].pc = "sleeping"
    /\ frames' = [frames EXCEPT ![f].pc = "work_ret"]
    /\ ready' = Append(ready, StepHandle(f))
    /\ UNCHANGED <<prog, aside, observed, results, running_tasks, cur, calls, requests>>

already_completed_never(res, t) == FALSE

(* DagRun.run: task in self._results.keys() *)
already_completed(res, t) == t \in DOMAIN res

(* DagRun.run, entry: already completed, already started, static skip. *)
RunEntry(f) ==
    /\ cur = f
    /\ frames[f].pc = "start"
    /\ LET t == frames[f].task
       IN IF already_completed(results, t)
          THEN Return(f, Log(frames, f, "already completed")) /\ UNCHANGED results
          ELSE IF t \in DOMAIN running_tasks
          THEN /\ frames' = [Log(frames, f, "already started") EXCEPT ![f].pc = "await_running"]
               /\ cur' = 0
               /\ UNCHANGED <<results, ready>>
          ELSE IF ~has_skip_task(t) /\ should_be_skipped(t)
          THEN /\ results' = Store(results, t, TaskResult("SKIPPED", None, NoError))
               /\ Return(f, Log(frames, f, "should be skipped"))
          ELSE /\ frames' = [Log(frames, f, "running") EXCEPT ![f].pc = "gate"]
               /\ UNCHANGED <<results, cur, ready>>
    /\ UNCHANGED <<prog, aside, observed, running_tasks, calls, requests>>

(* DagRun.run: await self.run(task.skip_task) when the gate runs first. *)
GateFirst(f) ==
    /\ cur = f
    /\ frames[f].pc = "gate"
    /\ LET t == frames[f].task
       IN IF needs_to_run_skip_task_first(t)
          THEN /\ frames' = Append([Log(frames, f, "waiting for skip task")
                                      EXCEPT ![f].pc = "gate_ret"],
                                   NewFrame(skip_task(t), f, TRUE))
               /\ cur' = Len(frames) + 1
          ELSE /\ frames' = [frames EXCEPT ![f].pc = "fanout"]
               /\ UNCHANGED cur
    /\ UNCHANGED <<prog, aside, observed, results, running_tasks, ready, calls, requests>>

(* DagRun.run: the gate has been resolved; skip if its value is truthy. *)
GateReturn(f) ==
    /\ cur = f
    /\ frames[f].pc = "gate_ret"
    /\ LET t == frames[f].task
       IN IF Truthy(results[skip_task(t)].value)
          THEN /\ results' = Store(results, t, TaskResult("SKIPPED", None, NoError))
               /\ Return(f, Log(frames, f, "should be skipped"))
          ELSE /\ frames' = [frames EXCEPT ![f].pc = "fanout"]
               /\ UNCHANGED <<results, cur, ready>>
    /\ UNCHANGED <<prog, aside, observed, running_tasks, calls, requests>>

(* DagRun.run: asyncio.gather over one asyncio task per upstream task.  A  *)
(* gather of nothing is already done and does not suspend.                *)
FanOut(f) ==
    /\ cur = f
    /\ frames[f].pc = "fanout"
    /\ LET ups == upstream_tasks(frames[f].task)
           n == Len(frames)
       IN IF ups = <<>>
          THEN /\ frames' = [frames EXCEPT ![f].pc = "assemble"]
               /\ UNCHANGED <<cur, ready>>
          ELSE /\ frames' = [frames EXCEPT ![f].pc = "assemble"]
                            \o [i \in 1..Len(ups) |-> NewFrame(ups[i], f, FALSE)]
               /\ ready' = ready \o [i \in 1..Len(ups) |-> StepHandle(n + i)]
               /\ cur' = 0
    /\ UNCHANGED <<prog, aside, observed, results, running_tasks, calls, requests>>

(* DagRun.run: gather the values of the named inputs. *)
Assemble(f) ==
    /\ cur = f
    /\ frames[f].pc = "assemble"
    /\ LET t == frames[f].task
           args == get_run_kwargs_before_execution(t)
           vals == [i \in 1..Len(args) |-> gather_value(results, args[i])]
           bad == {i \in 1..Len(args) : vals[i].error # NoError}
       IN IF bad # {}
          THEN LET i == CHOOSE j \in bad : \A k \in bad : j <= k
               IN /\ results' = Store(results, t, TaskResult("FAILED", None, vals[i].error))
                  /\ frames' = [Log(frames, f, "failed") EXCEPT ![f].pc = "propagate_failed"]
          ELSE /\ frames' = [frames EXCEPT ![f].pc = "propagate_failed",
                                           ![f].kwargs = [i \in 1..Len(args) |-> vals[i].value],
                                           ![f].bound = TRUE]
               /\ UNCHANGED results
    /\ UNCHANGED <<prog, aside, observed, running_tasks, cur, ready, calls, requests>>

any_upstream_failed_directly(res, t) ==
    \E u \in Range(upstream_tasks(t)) : res[u].state = "FAILED"

any_upstream_failed_and_none_skipped(res, t) ==
    /\ \E u \in Range(upstream_tasks(t)) : res[u].state \in FailedStates
    /\ ~\E u \in Range(upstream_tasks(t)) : res[u].state \in SkippedStates

any_upstream_failed(res, t) ==
    \E u \in Range(upstream_tasks(t)) : res[u].state \in FailedStates

any_upstream_skipped_directly(res, t) ==
    \E u \in Range(upstream_tasks(t)) : res[u].state = "SKIPPED"

any_upstream_skipped(res, t) ==
    \E u \in Range(upstream_tasks(t)) : res[u].state \in SkippedStates

(* DagRun.run: any upstream FAILED or UPSTREAM_FAILED. *)
PropagateFailure(f) ==
    /\ cur = f
    /\ frames[f].pc = "propagate_failed"
    /\ LET t == frames[f].task
       IN IF any_upstream_failed(results, t)
          THEN /\ results' = Store(results, t, TaskResult("UPSTREAM_FAILED", None, NoError))
               /\ Return(f, Log(frames, f, "failed because of upstream task(s)"))
          ELSE /\ frames' = [frames EXCEPT ![f].pc = "propagate_skipped"]
               /\ UNCHANGED <<results, cur, ready>>
    /\ UNCHANGED <<prog, aside, observed, running_tasks, calls, requests>>

(* DagRun.run: any upstream SKIPPED or UPSTREAM_SKIPPED. *)
PropagateSkip(f) ==
    /\ cur = f
    /\ frames[f].pc = "propagate_skipped"
    /\ LET t == frames[f].task
       IN IF any_upstream_skipped(results, t)
          THEN /\ results' = Store(results, t, TaskResult("UPSTREAM_SKIPPED", None, NoError))
               /\ Return(f, Log(frames, f, "skipped because of upstream task(s)"))
          ELSE /\ frames' = [frames EXCEPT ![f].pc = "late_skip"]
               /\ UNCHANGED <<results, cur, ready>>
    /\ UNCHANGED <<prog, aside, observed, running_tasks, calls, requests>>

(* DagRun.run: test again if this task should be skipped. *)
LateSkip(f) ==
    /\ cur = f
    /\ frames[f].pc = "late_skip"
    /\ LET t == frames[f].task
       IN IF ~needs_to_run_skip_task_first(t) /\ has_skip_task(t)
             /\ Truthy(results[skip_task(t)].value)
          THEN /\ results' = Store(results, t, TaskResult("SKIPPED", None, NoError))
               /\ Return(f, Log(frames, f, "should be skipped"))
          ELSE /\ frames' = [frames EXCEPT ![f].pc = "execute"]
               /\ UNCHANGED <<results, cur, ready>>
    /\ UNCHANGED <<prog, aside, observed, running_tasks, calls, requests>>

OutcomeWithoutError(out) ==
    IF out.error # NoError THEN TaskResult("FAILED", None, NoError)
    ELSE TaskResult("SUCCEEDED", out.value, NoError)

OutcomeWithoutCapture(out) == TaskResult("SUCCEEDED", out.value, NoError)

OutcomeWithValueAndError(out) ==
    IF out.error # NoError THEN TaskResult("FAILED", 0, out.error)
    ELSE TaskResult("SUCCEEDED", out.value, NoError)

(* What the try block around the work function stores. *)
Outcome(out) ==
    IF out.error # NoError THEN TaskResult("FAILED", None, out.error)
    ELSE TaskResult("SUCCEEDED", out.value, NoError)

OutcomeLog(out) == IF out.error # NoError THEN "failed" ELSE "succeeded"

(* DagRun.run: result = await task.run(...) on the assembled kwargs.  The  *)
(* kwargs are unbound when the assembly raised: reading them raises        *)
(* UnboundLocalError inside the try block, before the work function.       *)
Execute(f) ==
    /\ cur = f
    /\ frames[f].pc = "execute"
    /\ LET t == frames[f].task
       IN IF ~frames[f].bound
          THEN /\ results' = Store(results, t, TaskResult("FAILED", None, "UnboundLocalError"))
               /\ Return(f, Log(frames, f, "failed"))
               /\ UNCHANGED calls
          ELSE LET n == calls[t] + 1
                   out == Work(t, frames[f].kwargs, n)
               IN /\ calls' = [calls EXCEPT ![t] = n]
                  /\ IF prog[t].suspends
                     THEN /\ frames' = [frames EXCEPT ![f].pc = "sleeping",
                                                      ![f].ret = Outcome(out)]
                          /\ cur' = 0
                          /\ UNCHANGED ready
                          /\ UNCHANGED results
                     ELSE /\ results' = Store(results, t, Outcome(out))
                          /\ Return(f, Log(frames, f, OutcomeLog(out)))
    /\ UNCHANGED <<prog, aside, observed, running_tasks, requests>>

(* DagRun.run: the suspended work function has finished. *)
WorkReturn(f) ==
    /\ cur = f
    /\ frames[f].pc = "work_ret"
    /\ results' = Store(results, frames[f].task, frames[f].ret)
    /\ Return(f, Log(frames, f, IF frames[f].ret.state = "FAILED"
                                THEN "failed" ELSE "succeeded"))
    /\ UNCHANGED <<prog, aside, observed, running_tasks, calls, requests>>

Next ==
    \/ \E t \in TaskIds : Request(t)
    \/ \E t \in TaskIds : GetResult(t)
    \/ \E f \in DOMAIN frames : Resume(f)
    \/ \E f \in DOMAIN frames : GatherCallback(f)
    \/ \E f \in DOMAIN frames : TimerFires(f)
    \/ \E f \in DOMAIN frames : RunEntry(f)
    \/ \E f \in DOMAIN frames : GateFirst(f)
    \/ \E f \in DOMAIN frames : GateReturn(f)
    \/ \E f \in DOMAIN frames : FanOut(f)
    \/ \E f \in DOMAIN frames : Assemble(f)
    \/ \E f \in DOMAIN frames : PropagateFailure(f)
    \/ \E f \in DOMAIN frames : PropagateSkip(f)
    \/ \E f \in DOMAIN frames : LateSkip(f)
    \/ \E f \in DOMAIN frames : Execute(f)
    \/ \E f \in DOMAIN frames : WorkReturn(f)

Spec == Init /\ [][Next]_vars

(* The event loop keeps running its handles and every sleep ends; the     *)
(* caller is free to stop asking.                                          *)
LoopStep == Next /\ requests' = requests /\ observed' = observed

FairSpec == Spec /\ WF_vars(LoopStep)

(* ---------------------------------------------------------------------- *)
(* Trigger rules (src/ydag/deprecated/it1/trigger.py)                     *)
(* ---------------------------------------------------------------------- *)

(* Longest list of predecessor states handed to next_state. *)
MaxPredecessors == 2

State == {"CREATED", "WAITING", "RUNNING", "SKIPPED", "SUCCEEDED", "FAILED",
          "UPSTREAM_FAILED", "UPSTREAM_SKIPPED"}

NOT_DONE_STATES_without_running == {"CREATED", "WAITING"}

NOT_DONE_STATES == {"CREATED", "WAITING", "RUNNING"}

DONE_STATES_without_skipped == {"UPSTREAM_SKIPPED", "SUCCEEDED", "FAILED", "UPSTREAM_FAILED"}

DONE_STATES == {"SKIPPED", "UPSTREAM_SKIPPED", "SUCCEEDED", "FAILED", "UPSTREAM_FAILED"}

SKIPPED_STATES_without_upstream == {"SKIPPED"}

SKIPPED_STATES == {"SKIPPED", "UPSTREAM_SKIPPED"}

FAILED_STATES_without_upstream == {"FAILED"}

FAILED_STATES == {"FAILED", "UPSTREAM_FAILED"}

Trigger == {"ALL_SUCCESS", "ALL_FAILED", "ALL_DONE", "ONE_SUCCESS", "ONE_FAILED",
            "NONE_FAILED", "NONE_SKIPPED"}

every_state_in(predecessor_states, S) ==
    \A i \in DOMAIN predecessor_states : predecessor_states[i] \in S

(* any([state in S for state in predecessor_states]) *)
any_state_in(predecessor_states, S) ==
    \E i \in DOMAIN predecessor_states : predecessor_states[i] \in S

issubset_of_nonempty(predecessor_states, S) ==
    predecessor_states # <<>> /\ Range(predecessor_states) \subseteq S

(* set(predecessor_states).issubset(S) *)
issubset(predecessor_states, S) == Range(predecessor_states) \subseteq S

(* Trigger.next_state.  A rule's block that returns nothing falls through *)
(* the tests of the rules below it, none of which holds, to the last      *)
(* line of the method.                                                     *)
next_state(self, predecessor_states) ==
    IF any_state_in(predecessor_states, NOT_DONE_STATES) THEN "WAITING"
    ELSE IF self = "ALL_SUCCESS" /\ Range(predecessor_states) = {"SUCCEEDED"} THEN "RUNNING"
    ELSE IF self = "ALL_SUCCESS" /\ any_state_in(predecessor_states, SKIPPED_STATES)
         THEN "UPSTREAM_SKIPPED"
    ELSE IF self = "ALL_SUCCESS" /\ any_state_in(predecessor_states, FAILED_STATES)
         THEN "UPSTREAM_FAILED"
    ELSE IF self = "ALL_FAILED" /\ issubset(predecessor_states, FAILED_STATES) THEN "RUNNING"
    ELSE IF self = "ALL_FAILED" /\ any_state_in(predecessor_states, SKIPPED_STATES)
         THEN "UPSTREAM_SKIPPED"
    ELSE IF self = "ALL_FAILED" /\ any_state_in(predecessor_states, FAILED_STATES)
         THEN "UPSTREAM_FAILED"
    ELSE IF self = "ALL_DONE" /\ issubset(predecessor_states, DONE_STATES) THEN "RUNNING"
    ELSE IF self = "ALL_DONE" THEN "FAILED"
    ELSE IF self = "ONE_SUCCESS" /\ any_state_in(predecessor_states, {"SUCCEEDED"})
         THEN "RUNNING"
    ELSE IF self = "ONE_SUCCESS" /\ ~any_state_in(predecessor_states, FAILED_STATES)
         THEN "UPSTREAM_FAILED"
    ELSE IF self = "ONE_SUCCESS" THEN "FAILED"
    ELSE IF self = "ONE_FAILED" /\ ~any_state_in(predecessor_states, FAILED_STATES)
         THEN "RUNNING"
    ELSE IF self = "ONE_FAILED" THEN "FAILED"
    ELSE IF self = "NONE_FAILED" /\ any_state_in(predecessor_states, FAILED_STATES)
         THEN "FAILED"
    ELSE IF self = "NONE_FAILED" THEN "RUNNING"
    ELSE IF self = "NONE_SKIPPED" /\ any_state_in(predecessor_states, SKIPPED_STATES)
         THEN "FAILED"
    ELSE IF self = "NONE_SKIPPED" THEN "RUNNING"
    ELSE "WAITING"

(* The lists of states a caller can hand over. *)
StateLists == UNION {[1..n -> State] : n \in 0..MaxPredecessors}

(* No DagRun at work: the engine's variables stay as constructed. *)
dagrun == <<prog, results, running_tasks, frames, cur, ready, calls, requests, observed>>

NoRun(p) ==
    /\ prog = p
    /\ results = <<>>
    /\ running_tasks = <<>>
    /\ frames = <<>>
    /\ cur = 0
    /\ ready = <<>>
    /\ calls = [t \in DOMAIN p |-> 0]
    /\ requests = 0
    /\ observed = [t \in DOMAIN p |-> NoLookup]

(* A caller holds a rule and a list of predecessor states ...             *)
TriggerInit ==
    /\ NoRun(Diamond(FALSE))
    /\ instances = NoInstances
    /\ graph = NoGraph
    /\ poll = NoPoll
    /\ \E self \in Trigger, predecessor_states \in StateLists :
         called = [NoCall EXCEPT !.self = self, !.args = predecessor_states]

(* ... and calls self.next_state(predecessor_states).                     *)
Evaluate ==
    /\ called.name = ""
    /\ called' = [called EXCEPT !.name = "next_state",
                                !.value = next_state(called.self, called.args)]
    /\ UNCHANGED <<dagrun, instances, graph, poll>>

TriggerNext == Evaluate

TriggerSpec == TriggerInit /\ [][TriggerNext]_vars

(* ---------------------------------------------------------------------- *)
(* Task properties read by a caller (src/ydag/task.py, Task)              *)
(* ---------------------------------------------------------------------- *)

(* str() of a bool, the form in which called.value holds it. *)
Str(b) == IF b THEN "True" ELSE "False"

Returns(v) == [value |-> v, error |-> NoError]

Raises(e) == [value |-> "", error |-> e]

(* The four skip-gate properties of Task. *)
SkipProperties ==
    {"needs_to_run_skip_task_first", "has_skip_task", "should_be_skipped", "skip_task"}

getattr_never_raising(t, name) ==
    CASE name = "needs_to_run_skip_task_first" -> Returns(Str(needs_to_run_skip_task_first(t)))
      [] name = "has_skip_task" -> Returns(Str(has_skip_task(t)))
      [] name = "should_be_skipped" -> Returns(Str(should_be_skipped(t)))
      [] name = "skip_task" -> Returns(skip_task(t))

(* getattr(task, name) on one of the skip-gate properties: the value      *)
(* returned or the exception raised.                                       *)
getattr(t, name) ==
    CASE name = "needs_to_run_skip_task_first" -> Returns(Str(needs_to_run_skip_task_first(t)))
      [] name = "has_skip_task" -> Returns(Str(has_skip_task(t)))
      [] name = "should_be_skipped" ->
            IF prog[t].skip.kind = "bool" THEN Returns(Str(should_be_skipped(t)))
            ELSE Raises("ValueError")
      [] name = "skip_task" ->
            IF prog[t].skip.kind = "task" THEN Returns(skip_task(t))
            ELSE Raises("ValueError")

(* A task declared with any gate and any check_skip_first flag. *)
Declared(skip, csf) ==
    [gate |-> Task(NoSkip, FALSE, <<>>, <<>>, "const", 1, FALSE),
     gated |-> Task(skip, csf, <<>>, <<>>, "const", 1, FALSE)]

Declarations ==
    {Declared(skip, csf) :
        skip \in {StaticSkip(TRUE), StaticSkip(FALSE), TaskSkip("gate")}, csf \in BOOLEAN}

(* Tasks are declared; no DagRun is running them. *)
PropertyInit ==
    /\ \E p \in Programs \cup Declarations : NoRun(p)
    /\ called = NoCall
    /\ instances = NoInstances
    /\ graph = NoGraph
    /\ poll = NoPoll

(* The caller reads one property of one task. *)
ReadProperty(t, name) ==
    /\ called' = [name |-> name, self |-> t, args |-> <<>>,
                  value |-> getattr(t, name).value, error |-> getattr(t, name).error]
    /\ UNCHANGED <<dagrun, instances, graph, poll>>

PropertyNext == \E t \in TaskIds, name \in SkipProperties : ReadProperty(t, name)

PropertySpec == PropertyInit /\ [][PropertyNext]_vars

(* ---------------------------------------------------------------------- *)
(* Task and DagRun objects (src/ydag/task.py)                             *)
(*                                                                         *)
(* instances.tasks[o] is the class and id of Task object o,               *)
(* instances.hashes the value of hash() on each id in this process (str   *)
(* hashes are seeded per process and may collide), instances.runs[r] the  *)
(* dict that DagRun object r holds as _results, instances.stores[d] the   *)
(* content of dict d (keyed by Task object), instances.work[o] the number *)
(* of times the work function of object o was entered, instances.last     *)
(* the last call of DagRun.run and the line it logged.                    *)
(* ---------------------------------------------------------------------- *)

(* Task objects constructed by the caller. *)
MaxTasks == 2

(* DagRun objects constructed by the caller. *)
MaxRuns == 2

Ids == {"a", "b"}

(* IncrementTask counts its executions in self.x and returns the count;   *)
(* FailTask raises ValueError.                                            *)
Classes == {"IncrementTask", "FailTask"}

__eq__of_same_class(self, another) ==
    /\ instances.tasks[self].cls = instances.tasks[another].cls
    /\ instances.tasks[self].id = instances.tasks[another].id

(* Task.__eq__ between Task objects: every object here is an instance of  *)
(* a subclass of Task, so isinstance(another, Task) holds.                *)
__eq__(self, another) == instances.tasks[self].id = instances.tasks[another].id

(* Task.__hash__ *)
__hash__(self) == instances.hashes[instances.tasks[self].id]

(* The keys of dict d under which a lookup of key finds its entry: same   *)
(* hash, and the same object or an equal one.                             *)
keys_matching(d, key) ==
    {k \in DOMAIN d : __hash__(k) = __hash__(key) /\ (k = key \/ __eq__(k, key))}

(* d[key] = r: an entry found keeps its key and takes the new value. *)
setitem(d, key, r) ==
    IF keys_matching(d, key) # {}
    THEN [k \in DOMAIN d |-> IF k \in keys_matching(d, key) THEN r ELSE d[k]]
    ELSE [k \in DOMAIN d \cup {key} |-> IF k = key THEN r ELSE d[k]]

results_shared_by_runs(r) == 1

(* DagRun.__init__: self._results = {}, a dict of this object's own. *)
results_of_new_run(r) == r

InstanceInit ==
    /\ NoRun(Diamond(FALSE))
    /\ called = NoCall
    /\ graph = NoGraph
    /\ poll = NoPoll
    /\ \E tasks \in [1..MaxTasks -> [cls : Classes, id : Ids]],
          hashes \in {[a |-> 1, b |-> 1], [a |-> 1, b |-> 2]} :
         instances = [tasks |-> tasks, hashes |-> hashes,
                      runs |-> [r \in 1..MaxRuns |-> results_of_new_run(r)],
                      stores |-> [d \in 1..MaxRuns |-> <<>>],
                      work |-> [o \in 1..MaxTasks |-> 0],
                      last |-> NoResolution]

(* await run.run(task) on DagRun object r and Task object o, a task with  *)
(* no gate, no upstream and a work function that does not suspend: the    *)
(* call runs from entry to return without yielding.                       *)
Resolve(r, o) ==
    LET d == instances.runs[r]
        store == instances.stores[d]
        x == instances.work[o] + 1
        result == IF instances.tasks[o].cls = "IncrementTask"
                  THEN TaskResult("SUCCEEDED", x, NoError)
                  ELSE TaskResult("FAILED", None, "ValueError")
    IN /\ instances' =
            IF keys_matching(store, o) # {}
            THEN [instances EXCEPT !.last = [run |-> r, task |-> o, log |-> "already completed"]]
            ELSE [instances EXCEPT
                    !.work[o] = x,
                    !.stores[d] = setitem(store, o, result),
                    !.last = [run |-> r, task |-> o,
                              log |-> IF result.state = "SUCCEEDED" THEN "succeeded"
                                      ELSE "failed"]]
       /\ UNCHANGED <<dagrun, called, graph, poll>>

InstanceNext == \E r \in 1..MaxRuns, o \in 1..MaxTasks : Resolve(r, o)

InstanceSpec == InstanceInit /\ [][InstanceNext]_vars

(* ---------------------------------------------------------------------- *)
(* Runs with two suspending work functions                                *)
(* ---------------------------------------------------------------------- *)

(* Two WaitTask-like tasks without dependency between them, and a task    *)
(* that takes both as named inputs.                                       *)
Parallel ==
    [a |-> Task(NoSkip, FALSE, <<>>, <<>>, "const", 1, TRUE),
     b |-> Task(NoSkip, FALSE, <<>>, <<>>, "const", 1, TRUE),
     join |-> Task(NoSkip, FALSE, <<>>, <<TaskRef("a"), TaskRef("b")>>, "add", None, FALSE)]

ParallelPrograms == {Parallel, Gated("const", 0, TRUE, FALSE, 1, TaskRef("other"))}

ParallelInit ==
    /\ \E p \in ParallelPrograms : NoRun(p)
    /\ called = NoCall
    /\ instances = NoInstances
    /\ graph = NoGraph
    /\ poll = NoPoll

ParallelSpec == ParallelInit /\ [][Next]_vars

(* ---------------------------------------------------------------------- *)
(* The Dag container (src/ydag/dag.py, Dag)                               *)
(*                                                                         *)
(* graph.nodes and graph.edges are the nodes and edges of Dag._graph in   *)
(* the order they were inserted (the order nx.DiGraph iterates them in);  *)
(* graph.error is the exception the last call on the Dag raised.          *)
(* ---------------------------------------------------------------------- *)

(* Edges a caller adds to one Dag. *)
MaxEdges == 3

(* The ids of the tasks constructed in the Dag. *)
DagTaskIds == {"a", "b", "c"}

(* nx.DiGraph.add_node: a node already present stays where it is. *)
add_node(g, n) == IF n \in Range(g.nodes) THEN g ELSE [g EXCEPT !.nodes = Append(@, n)]

(* nx.DiGraph.add_edge: adds the end points that are missing. *)
add_edge(g, u, v) ==
    LET h == add_node(add_node(g, u), v)
    IN IF <<u, v>> \in Range(h.edges) THEN h ELSE [h EXCEPT !.edges = Append(@, <<u, v>>)]

(* The nodes reached from the set S in at most k more steps. *)
RECURSIVE descendants(_, _, _)
descendants(g, S, k) ==
    IF k = 0 THEN S
    ELSE descendants(g, S \cup {e[2] : e \in {x \in Range(g.edges) : x[1] \in S}}, k - 1)

(* nx.is_directed_acyclic_graph: no node reaches itself, self loops       *)
(* included.                                                               *)
is_directed_acyclic_graph(g) ==
    \A n \in Range(g.nodes) :
        n \notin descendants(g, {e[2] : e \in {x \in Range(g.edges) : x[1] = n}}, Len(g.nodes))

DagInit ==
    /\ NoRun(Diamond(FALSE))
    /\ called = NoCall
    /\ instances = NoInstances
    /\ graph = NoGraph
    /\ poll = NoPoll

(* Dag.add, called by Task.__init__. *)
add(task) ==
    /\ task \notin Range(graph.nodes)
    /\ graph' = [add_node(graph, task) EXCEPT !.error = NoError]
    /\ UNCHANGED <<dagrun, called, instances, poll>>

(* Dag.add_dependency (first_task >> second_task) between two tasks of    *)
(* the Dag: the edge is added, then the graph is tested.                  *)
add_dependency(first_task, second_task) ==
    /\ {first_task, second_task} \subseteq Range(graph.nodes)
    /\ Len(graph.edges) < MaxEdges
    /\ LET g == add_edge(graph, first_task, second_task)
       IN graph' = [g EXCEPT !.error = IF is_directed_acyclic_graph(g) THEN NoError
                                       ELSE "DagDefinitionError"]
    /\ UNCHANGED <<dagrun, called, instances, poll>>

DagNext ==
    \/ \E task \in DagTaskIds : add(task)
    \/ \E first_task \in DagTaskIds, second_task \in DagTaskIds :
          add_dependency(first_task, second_task)

DagSpec == DagInit /\ [][DagNext]_vars

(* ---------------------------------------------------------------------- *)
(* The polling executor (src/ydag/dag.py, DagRun and TaskInstance)        *)
(*                                                                         *)
(* poll.tis[i] is the i-th task of Dag.tasks() with its TaskInstance:     *)
(* soft_fail, trigger and await_tasks as given to Task.__init__ (tasks    *)
(* are numbered in the order they were constructed, await_tasks names     *)
(* tasks constructed before), work the class of the task (GetOneTask      *)
(* returns at once, FailTask raises at once, WaitTask sleeps and returns), *)
(* state and error the fields _state and _error, pc the position of       *)
(* TaskInstance._execute.                                                  *)
(* poll.predecessors is what nx.DiGraph.predecessors returns in the       *)
(* installed networkx: a list (1.x) or a one-shot iterator (2.x and       *)
(* later).  poll.state is DagRun.state, poll.error the exception          *)
(* DagRun.__init__ raised, poll.raised the outcome of raise_any_error.    *)
(* ---------------------------------------------------------------------- *)

(* Tasks constructed in one Dag. *)
MaxInstances == 2

Max(S) == CHOOSE x \in S : \A y \in S : y <= x

Min(S) == CHOOSE x \in S : \A y \in S : x <= y

(* The subset S of 1..n as the ascending sequence of its elements. *)
RECURSIVE Ascending(_)
Ascending(S) == IF S = {} THEN <<>> ELSE Ascending(S \ {Max(S)}) \o <<Max(S)>>

(* The Task subclasses of tests/full_dag.py. *)
TaskClasses == {"GetOneTask", "FailTask", "WaitTask"}

(* Task.__init__ of dag.py; a task constructed without await_tasks keeps  *)
(* the default trigger.                                                    *)
DagTasks(i) ==
    {[soft_fail |-> c[1], trigger |-> c[3], await_tasks |-> Ascending(c[4]), work |-> c[2],
      state |-> "CREATED", error |-> NoError, pc |-> "task"] :
        c \in {x \in BOOLEAN \X TaskClasses \X Trigger \X SUBSET (1 .. (i - 1)) :
                  x[4] = {} => x[3] = "ALL_SUCCESS"}}

(* The Dags of n tasks. *)
RECURSIVE Dags(_)
Dags(n) == IF n = 0 THEN {<<>>} ELSE {Append(c[1], c[2]) : c \in Dags(n - 1) \X DagTasks(n)}

PollInit ==
    /\ NoRun(Diamond(FALSE))
    /\ called = NoCall
    /\ instances = NoInstances
    /\ graph = NoGraph
    /\ \E n \in 1 .. MaxInstances :
       \E tis \in Dags(n) :
       \E predecessors \in {"list", "iterator"} :
          poll = [NoPoll EXCEPT !.tis = tis, !.predecessors = predecessors]

(* [ti.state for ti in task_instances.values() if ti.task.id in ids] with *)
(* ids a list.                                                             *)
RECURSIVE states_in_list(_, _, _)
states_in_list(tis, k, ids) ==
    IF k > Len(tis) THEN <<>>
    ELSE (IF k \in Range(ids) THEN <<tis[k].state>> ELSE <<>>)
         \o states_in_list(tis, k + 1, ids)

(* The same comprehension with ids an iterator: each membership test      *)
(* consumes it up to the id found, or to its end.                         *)
RECURSIVE states_in_iterator(_, _, _)
states_in_iterator(tis, k, ids) ==
    IF k > Len(tis) THEN <<>>
    ELSE LET found == {j \in DOMAIN ids : ids[j] = k}
         IN IF found = {} THEN states_in_iterator(tis, k + 1, <<>>)
            ELSE <<tis[k].state>>
                 \o states_in_iterator(tis, k + 1, SubSeq(ids, Min(found) + 1, Len(ids)))

(* DagRun.get_predecessor_task_instance_states *)
get_predecessor_task_instance_states(p, i) ==
    IF p.predecessors = "list" THEN states_in_list(p.tis, 1, p.tis[i].await_tasks)
    ELSE states_in_iterator(p.tis, 1, p.tis[i].await_tasks)

(* TaskInstance._next_state *)
_next_state(p, i) ==
    LET predecessor_task_run_states == get_predecessor_task_instance_states(p, i)
    IN IF predecessor_task_run_states # <<>>
       THEN next_state(p.tis[i].trigger, predecessor_task_run_states)
       ELSE "RUNNING"

(* Dag.run: DagRun.__init__ and DagRun._execute up to its await; one      *)
(* TaskInstance, with its asyncio task, per task of the Dag.              *)
run ==
    /\ poll.tis # <<>>
    /\ \A i \in DOMAIN poll.tis : poll.tis[i].pc = "task"
    /\ poll' = [poll EXCEPT !.state = "RUNNING",
                            !.tis = [i \in DOMAIN poll.tis |->
                                        [poll.tis[i] EXCEPT !.pc = "created"]]]
    /\ UNCHANGED <<dagrun, called, instances, graph>>

(* TaskInstance._execute from the test of its polling loop to its next    *)
(* suspension or its end: the if/elif/else on the next state, and the     *)
(* work of a task that does not suspend.                                   *)
after_waiting(p, i) ==
    LET next == _next_state(p, i)
    IN IF next = "WAITING" THEN [p EXCEPT !.tis[i].pc = "polling"]
       ELSE IF next = "UPSTREAM_FAILED"
            THEN [p EXCEPT !.tis[i].state = "UPSTREAM_FAILED", !.tis[i].pc = "done"]
       ELSE IF next = "RUNNING" /\ p.tis[i].work = "WaitTask"
            THEN [p EXCEPT !.tis[i].state = "RUNNING", !.tis[i].pc = "running"]
       ELSE IF next = "RUNNING" /\ p.tis[i].work = "GetOneTask"
            THEN [p EXCEPT !.tis[i].state = "SUCCEEDED", !.tis[i].pc = "done"]
       ELSE IF next = "RUNNING"
            THEN [p EXCEPT !.tis[i].error = "TaskFailedError",
                           !.tis[i].state = IF p.tis[i].soft_fail THEN "SKIPPED" ELSE "FAILED",
                           !.tis[i].pc = "done"]
       ELSE [p EXCEPT !.tis[i].pc = "raised"]

(* TaskInstance._execute, first step of the asyncio task; the tasks start *)
(* in the order they were created.                                         *)
_execute(i) ==
    /\ poll.tis[i].pc = "created"
    /\ \A j \in 1 .. (i - 1) : poll.tis[j].pc # "created"
    /\ poll' = after_waiting([poll EXCEPT !.tis[i].state = "WAITING"], i)
    /\ UNCHANGED <<dagrun, called, instances, graph>>

(* The asyncio tasks created by DagRun._execute have all taken their      *)
(* first step: timers and callbacks come after them in the event loop.    *)
AllStarted == \A j \in DOMAIN poll.tis : poll.tis[j].pc # "created"

(* TaskInstance._execute: asyncio.sleep(0.1) is over, the loop tests the  *)
(* next state again.                                                       *)
sleep(i) ==
    /\ poll.tis[i].pc = "polling"
    /\ AllStarted
    /\ poll' = after_waiting(poll, i)
    /\ UNCHANGED <<dagrun, called, instances, graph>>

(* TaskInstance._execute: the sleep of WaitTask.run is over, run_and_save *)
(* returns.                                                                *)
run_and_save(i) ==
    /\ poll.tis[i].pc = "running"
    /\ AllStarted
    /\ poll' = [poll EXCEPT !.tis[i].state = "SUCCEEDED", !.tis[i].pc = "done"]
    /\ UNCHANGED <<dagrun, called, instances, graph>>

(* DagRun._execute: asyncio.gather has every result. *)
gather_returns ==
    /\ poll.state = "RUNNING"
    /\ \A i \in DOMAIN poll.tis : poll.tis[i].pc = "done"
    /\ poll' = [poll EXCEPT !.state = "SUCCEEDED"]
    /\ UNCHANGED <<dagrun, called, instances, graph>>

(* DagRun._execute: asyncio.gather raises the NotImplementedError of a    *)
(* task instance; asyncio.run cancels the asyncio tasks that are left and *)
(* DagRun.__init__ raises.                                                 *)
gather_raises ==
    /\ poll.error = NoError
    /\ AllStarted
    /\ \E i \in DOMAIN poll.tis : poll.tis[i].pc = "raised"
    /\ poll' = [poll EXCEPT !.error = "NotImplementedError",
                            !.tis = [i \in DOMAIN poll.tis |->
                                        IF poll.tis[i].pc \in {"polling", "running"}
                                        THEN [poll.tis[i] EXCEPT !.pc = "cancelled"]
                                        ELSE poll.tis[i]]]
    /\ UNCHANGED <<dagrun, called, instances, graph>>

(* DagRun.raise_any_error, on the DagRun that Dag.run returned. *)
raise_any_error ==
    /\ poll.state = "SUCCEEDED"
    /\ poll.raised = ""
    /\ LET errors == {i \in DOMAIN poll.tis : poll.tis[i].error # NoError}
       IN poll' = [poll EXCEPT !.raised = IF errors # {} THEN "DagFailedError" ELSE NoError]
    /\ UNCHANGED <<dagrun, called, instances, graph>>

PollNext ==
    \/ run
    \/ \E i \in DOMAIN poll.tis : _execute(i)
    \/ \E i \in DOMAIN poll.tis : sleep(i)
    \/ \E i \in DOMAIN poll.tis : run_and_save(i)
    \/ gather_returns
    \/ gather_raises
    \/ raise_any_error

PollSpec == PollInit /\ [][PollNext]_vars

(* ---------------------------------------------------------------------- *)
(* Properties                                                             *)
(* ---------------------------------------------------------------------- *)

TerminalStates == {"SKIPPED", "SUCCEEDED", "FAILED", "UPSTREAM_FAILED", "UPSTREAM_SKIPPED"}

(* The upstream set of a task as declared: skip gate task, wait_on tasks,  *)
(* tasks bound to named inputs, roots of Transform-valued inputs.          *)
UpstreamSet(t) ==
    (IF prog[t].skip.kind = "task" THEN {prog[t].skip.id} ELSE {})
    \cup Range(prog[t].wait_on)
    \cup {prog[t].args[i].id : i \in {j \in DOMAIN prog[t].args : prog[t].args[j].kind # "static"}}

RECURSIVE Ancestors(_)
Ancestors(t) == UpstreamSet(t) \cup UNION {Ancestors(u) : u \in UpstreamSet(t)}

Returned(fr, f) == fr[f].pc \in {"returned", "done"}

(* The run is over: every invocation has returned and the loop is idle. *)
Quiet ==
    /\ cur = 0
    /\ ready = <<>>
    /\ requests = MaxRequests
    /\ \A f \in DOMAIN frames : frames[f].pc = "done"

IsValueTruthy(v) == v \notin {None, 0}

HasFailed(res, t) == \E u \in UpstreamSet(t) : res[u].state \in {"FAILED", "UPSTREAM_FAILED"}

HasSkipped(res, t) == \E u \in UpstreamSet(t) : res[u].state \in {"SKIPPED", "UPSTREAM_SKIPPED"}

(* C1: run-once: within one DagRun the work function of every task is      *)
(* invoked at most once, however many requesters ask for the task, also    *)
(* when the work function suspends or the task has upstream tasks.         *)
C1_RunOnce == \A t \in TaskIds : calls[t] <= 1

(* C2: a Result stored for a task is never replaced by another Result. *)
C2_WrittenOnce == [][\A t \in DOMAIN results : results'[t] = results[t]]_vars

(* C3: DagRun.run on a task that already has a Result returns at once:     *)
(* no work function is invoked, no invocation is started for any task,     *)
(* and the result store is unchanged.                                      *)
C3_Idempotent ==
    [][\A f \in DOMAIN frames :
         (cur = f /\ frames[f].pc = "start" /\ frames[f].task \in DOMAIN results)
         => /\ Returned(frames', f)
            /\ results' = results
            /\ calls' = calls
            /\ Len(frames') = Len(frames)
            /\ ready' \in {ready, Append(ready, DoneHandle(f))}]_vars

C3_Witness ==
    \E f \in DOMAIN frames :
        /\ frames[f].log = "already completed"
        /\ Returned(frames, f)
        /\ frames[f].task \in DOMAIN results

(* C4: at the moment a work function begins, every member of the task's    *)
(* upstream set has a terminal Result in the store.                        *)
C4_Ordering ==
    [][\A t \in TaskIds :
         calls'[t] > calls[t]
         => \A u \in UpstreamSet(t) :
              u \in DOMAIN results /\ results[u].state \in TerminalStates]_vars

C4_Witness ==
    \E t \in TaskIds :
        /\ calls[t] > 0
        /\ Cardinality(UpstreamSet(t)) >= 2
        /\ prog[t].wait_on # <<>>

UpstreamFailedResult == TaskResult("UPSTREAM_FAILED", None, NoError)

UpstreamSkippedResult == TaskResult("UPSTREAM_SKIPPED", None, NoError)

SkippedResult == TaskResult("SKIPPED", None, NoError)

(* C5 as stated: when the run is over, every resolved task that depends    *)
(* transitively on a FAILED task is UPSTREAM_FAILED without value or       *)
(* error, and its work function never ran.                                 *)
C5_FailurePropagation ==
    Quiet => \A a \in DOMAIN results : \A t \in DOMAIN results :
               (results[a].state = "FAILED" /\ a \in Ancestors(t))
               => results[t] = UpstreamFailedResult /\ calls[t] = 0

(* C5 amended: a resolution that completes its fan-out while some member   *)
(* of the upstream set is FAILED or UPSTREAM_FAILED stores UPSTREAM_FAILED *)
(* without value or error and returns without invoking the work function. *)
C5_FailurePropagationAtCheck ==
    [][\A f \in DOMAIN frames :
         (cur = f /\ frames[f].pc = "propagate_failed" /\ HasFailed(results, frames[f].task))
         => /\ frames[f].task \in DOMAIN results'
            /\ results'[frames[f].task] = UpstreamFailedResult
            /\ Returned(frames', f)
            /\ calls' = calls]_vars

C5_Witness ==
    \E f \in DOMAIN frames : \E a \in UpstreamSet(frames[f].task) :
        /\ frames[f].log = "failed because of upstream task(s)"
        /\ a \in DOMAIN results
        /\ results[a].state = "UPSTREAM_FAILED"
        /\ results[frames[f].task] = UpstreamFailedResult
        /\ calls[frames[f].task] = 0

(* C6 as stated: when the run is over, every resolved task downstream of   *)
(* a SKIPPED or UPSTREAM_SKIPPED task is UPSTREAM_SKIPPED and its work     *)
(* function never ran.                                                     *)
C6_SkipPropagation ==
    Quiet => \A a \in DOMAIN results : \A t \in DOMAIN results :
               (results[a].state \in {"SKIPPED", "UPSTREAM_SKIPPED"} /\ a \in Ancestors(t))
               => results[t].state = "UPSTREAM_SKIPPED" /\ calls[t] = 0

(* C6 amended: a resolution that completes its fan-out while some member   *)
(* of the upstream set is SKIPPED or UPSTREAM_SKIPPED and none is FAILED   *)
(* or UPSTREAM_FAILED stores UPSTREAM_SKIPPED and returns without invoking *)
(* the work function.                                                      *)
C6_SkipPropagationAtCheck ==
    [][\A f \in DOMAIN frames :
         LET t == frames[f].task
         IN (/\ cur = f
             /\ frames[f].pc \in {"propagate_failed", "propagate_skipped"}
             /\ HasSkipped(results, t)
             /\ ~HasFailed(results, t))
            => /\ calls' = calls
               /\ frames[f].pc = "propagate_failed"
                  => frames'[f].pc = "propagate_skipped" /\ results' = results
               /\ frames[f].pc = "propagate_skipped"
                  => /\ t \in DOMAIN results'
                     /\ results'[t] = UpstreamSkippedResult
                     /\ Returned(frames', f)]_vars

C6_Witness ==
    \E f \in DOMAIN frames : \E a \in UpstreamSet(frames[f].task) :
        /\ frames[f].log = "skipped because of upstream task(s)"
        /\ a \in DOMAIN results
        /\ results[a].state = "UPSTREAM_SKIPPED"
        /\ results[frames[f].task] = UpstreamSkippedResult
        /\ calls[frames[f].task] = 0

(* C7: after fan-out, failure is checked before skip: with a failed and a  *)
(* skipped upstream the task is stored UPSTREAM_FAILED, and it is stored   *)
(* UPSTREAM_SKIPPED only when some upstream is skipped and none failed.    *)
C7_Precedence ==
    [][\A f \in DOMAIN frames :
         LET t == frames[f].task
         IN cur = f
            => /\ (/\ frames[f].pc = "propagate_failed"
                   /\ HasFailed(results, t)
                   /\ HasSkipped(results, t))
                  => t \in DOMAIN results' /\ results'[t].state = "UPSTREAM_FAILED"
               /\ (/\ Returned(frames', f)
                   /\ t \in DOMAIN results'
                   /\ results'[t].state = "UPSTREAM_SKIPPED")
                  => HasSkipped(results, t) /\ ~HasFailed(results, t)]_vars

C7_Witness ==
    \E t \in DOMAIN results :
        /\ results[t].state = "UPSTREAM_FAILED"
        /\ \A u \in UpstreamSet(t) : u \in DOMAIN results
        /\ HasFailed(results, t)
        /\ HasSkipped(results, t)

(* The frames a resolution of task t started with asyncio.create_task. *)
StartedBy(t) == {g \in DOMAIN frames : ~frames[g].inline /\ frames[g].parent # 0
                                       /\ frames[frames[g].parent].task = t}

C9_StaticSkip ==
    \A t \in TaskIds :
        (prog[t].skip.kind = "bool" /\ prog[t].skip.val)
        => /\ calls[t] = 0
           /\ t \in DOMAIN results => results[t] = SkippedResult
           /\ StartedBy(t) = {}
           /\ \A f \in DOMAIN frames :
                frames[f].task = t
                => /\ frames[f].pc \in {"start", "returned", "done"}
                   /\ Returned(frames, f) => t \in DOMAIN results

C9_Witness ==
    \E t \in DOMAIN results :
        /\ prog[t].skip.kind = "bool" /\ prog[t].skip.val
        /\ UpstreamSet(t) # {}
        /\ results[t] = SkippedResult
        /\ \A u \in UpstreamSet(t) : u \notin DOMAIN results
        /\ Quiet

LateGate(t) == prog[t].skip.kind = "task" /\ ~prog[t].check_skip_first

AllUpstreamSucceeded(t) ==
    \A u \in UpstreamSet(t) : u \in DOMAIN results /\ results[u].state = "SUCCEEDED"

(* C10 as stated: when the run is over, a resolved task with a task gate   *)
(* and check_skip_first false whose upstream tasks all succeeded is        *)
(* SKIPPED with its work function never invoked if the gate's value is     *)
(* truthy, and had its work function invoked if the value is falsy.        *)
C10_LateSkip ==
    Quiet => \A t \in DOMAIN results :
               (LateGate(t) /\ AllUpstreamSucceeded(t))
               => IF IsValueTruthy(results[prog[t].skip.id].value)
                  THEN results[t] = SkippedResult /\ calls[t] = 0
                  ELSE calls[t] >= 1

(* C10 amended: at the late skip check of such a task the resolution       *)
(* stores SKIPPED and returns without invoking the work function if the    *)
(* gate's value is truthy; if it is falsy the resolution goes on to the    *)
(* work function, which it invokes when the input assembly succeeded and   *)
(* does not invoke (storing FAILED) when the assembly raised.              *)
C10_LateSkipAtCheck ==
    [][\A f \in DOMAIN frames :
         LET t == frames[f].task
         IN (cur = f /\ LateGate(t) /\ AllUpstreamSucceeded(t))
            => /\ frames[f].pc = "late_skip"
                  => IF IsValueTruthy(results[prog[t].skip.id].value)
                     THEN /\ t \in DOMAIN results' /\ results'[t] = SkippedResult
                          /\ Returned(frames', f)
                          /\ calls' = calls
                     ELSE frames'[f].pc = "execute" /\ calls' = calls
               /\ frames[f].pc = "execute"
                  => IF frames[f].bound
                     THEN calls' = [calls EXCEPT ![t] = calls[t] + 1]
                     ELSE /\ calls' = calls
                          /\ results'[t].state = "FAILED"
                          /\ Returned(frames', f)]_vars

C10_Witness ==
    /\ Quiet
    /\ \E t \in DOMAIN results :
        /\ LateGate(t)
        /\ AllUpstreamSucceeded(t)
        /\ IsValueTruthy(results[prog[t].skip.id].value)
        /\ results[t] = SkippedResult
        /\ calls[t] = 0

GateHasFailed(res, t) ==
    /\ prog[t].skip.kind = "task"
    /\ prog[t].skip.id \in DOMAIN res
    /\ res[prog[t].skip.id].state \in {"FAILED", "UPSTREAM_FAILED"}

(* C11: a task whose skip gate task has a FAILED or UPSTREAM_FAILED Result *)
(* is not skipped by the gate-first check, is stored UPSTREAM_FAILED       *)
(* without value or error at the failure check after the fan-out, and its  *)
(* resolution never gets to the work function; check_skip_first makes no   *)
(* difference.                                                             *)
C11_FailedGate ==
    [][\A f \in DOMAIN frames :
         LET t == frames[f].task
         IN (cur = f /\ GateHasFailed(results, t))
            => /\ calls' = calls
               /\ frames[f].pc \notin {"propagate_skipped", "late_skip", "execute",
                                       "sleeping", "work_ret"}
               /\ frames[f].pc = "gate_ret"
                  => frames'[f].pc = "fanout" /\ results' = results
               /\ frames[f].pc = "propagate_failed"
                  => /\ t \in DOMAIN results'
                     /\ results'[t] = UpstreamFailedResult
                     /\ Returned(frames', f)]_vars

C11_Witness ==
    /\ Quiet
    /\ \E e \in DOMAIN results : \E l \in DOMAIN results :
        /\ GateHasFailed(results, e) /\ prog[e].check_skip_first
        /\ GateHasFailed(results, l) /\ ~prog[l].check_skip_first
        /\ results[e] = UpstreamFailedResult /\ calls[e] = 0
        /\ results[l] = UpstreamFailedResult /\ calls[l] = 0

(* The mapping functions as written in the task declarations. *)
MapValue(g, v) == IF g = "inc" THEN v + 1 ELSE v * 2

IsComposition(a) ==
    /\ a.kind = "transform"
    /\ Len(a.steps) = 2
    /\ a.steps[1].alt = None /\ a.steps[1].f \in {"inc", "dbl"}
    /\ a.steps[2].alt = None /\ a.steps[2].f \in {"inc", "dbl"}

(* C12: when t.transform(f).transform(g) is a named input of a task and    *)
(* root task t succeeded with value v, the work function is invoked with   *)
(* g(f(v)) for that input; the chain is no node of its own: resolutions    *)
(* are started for declared tasks only, tasks are the only keys of the     *)
(* store, and the fan-out starts the root task.                            *)
C12_Composition ==
    [][/\ \A f \in DOMAIN frames :
            LET t == frames[f].task
            IN (cur = f /\ calls'[t] > calls[t])
               => \A i \in DOMAIN prog[t].args :
                    LET a == prog[t].args[i]
                    IN (IsComposition(a) /\ results[a.id].state = "SUCCEEDED")
                       => frames[f].kwargs[i] =
                            MapValue(a.steps[2].f, MapValue(a.steps[1].f, results[a.id].value))
       /\ DOMAIN results' \subseteq TaskIds
       /\ \A g \in DOMAIN frames' \ DOMAIN frames :
            /\ frames'[g].task \in TaskIds
            /\ frames'[g].parent # 0
               => frames'[g].task \in UpstreamSet(frames[frames'[g].parent].task)]_vars

C12_Witness ==
    /\ Quiet
    /\ \E t \in {u \in DOMAIN results : prog[u].args # <<>>} :
         LET a == prog[t].args[1]
         IN /\ IsComposition(a)
            /\ a.steps[1].f = "inc" /\ a.steps[2].f = "dbl"
            /\ results[a.id] = TaskResult("SUCCEEDED", 1, NoError)
            /\ calls[t] = 1
            /\ results[t] = TaskResult("SUCCEEDED", 5, NoError)
            /\ DOMAIN results = {t, a.id}

IsFallback(a) ==
    /\ a.kind = "transform"
    /\ Len(a.steps) = 1
    /\ a.steps[1].alt # None

(* C13: an input built as t.or_else(d) resolves to d when t failed and to  *)
(* the value of t otherwise, and the work function of the consuming task   *)
(* is invoked with that value.                                             *)
C13_Fallback ==
    Quiet => \A t \in {u \in DOMAIN results : prog[u].args # <<>>} :
               LET a == prog[t].args[1]
               IN (IsFallback(a) /\ results[a.id].state \in {"FAILED", "SUCCEEDED"})
                  => /\ calls[t] >= 1
                     /\ \E f \in DOMAIN frames :
                          /\ frames[f].task = t
                          /\ frames[f].bound
                          /\ frames[f].kwargs[1] = IF results[a.id].state = "FAILED"
                                                   THEN a.steps[1].alt
                                                   ELSE results[a.id].value

(* The error the work function of t raises on these inputs, NoError if it  *)
(* returns: FailTask raises ValueError, x + 1 and x + y raise TypeError on *)
(* None.                                                                   *)
Raised(t, kwargs) ==
    IF prog[t].work = "fail" THEN "ValueError"
    ELSE IF prog[t].work \in {"addone", "add"} /\ None \in Range(kwargs) THEN "TypeError"
    ELSE NoError

(* C14: a failure raised by the work function is captured: the resolution  *)
(* that invoked it (once) stores FAILED with the raised error and no value *)
(* and returns normally; a resolution that has returned does nothing more, *)
(* so the failed work function is not invoked again by it.                 *)
C14_WorkFailure ==
    [][\A f \in DOMAIN frames :
         LET t == frames[f].task
             stored == /\ t \in DOMAIN results'
                       /\ results'[t] = TaskResult("FAILED", None, Raised(t, frames[f].kwargs))
                       /\ Returned(frames', f)
         IN /\ (/\ cur = f /\ frames[f].bound
                /\ Raised(t, frames[f].kwargs) # NoError)
               => /\ frames[f].pc = "execute"
                     => /\ calls' = [calls EXCEPT ![t] = calls[t] + 1]
                        /\ IF prog[t].suspends
                           THEN frames'[f].pc = "sleeping" /\ results' = results
                           ELSE stored
                  /\ frames[f].pc = "work_ret" => stored /\ calls' = calls
            /\ Returned(frames, f) => Returned(frames', f) /\ frames'[f].task = t]_vars

C14_Witness ==
    /\ Quiet
    /\ \E f \in DOMAIN frames :
         LET t == frames[f].task
         IN /\ frames[f].log = "failed"
            /\ frames[f].bound
            /\ prog[t].suspends
            /\ calls[t] = 1
            /\ results[t] = TaskResult("FAILED", None, "ValueError")

(* Some Transform input of t starts with a mapping function (x + 1 or      *)
(* x * 2) over a root task whose value is None: the function raises.       *)
MappingRaises(t) ==
    \E i \in DOMAIN prog[t].args :
        LET a == prog[t].args[i]
        IN /\ a.kind = "transform"
           /\ a.steps[1].alt = None
           /\ results[a.id].value = None

NotSkipped(t) ==
    IF prog[t].skip.kind = "bool" THEN ~prog[t].skip.val
    ELSE ~IsValueTruthy(results[prog[t].skip.id].value)

(* C15: when the run is over, a resolved task that is not skipped, whose   *)
(* upstream tasks all succeeded and whose input assembly raised, is FAILED *)
(* with the error raised during the assembly, and its work function was    *)
(* never invoked.                                                          *)
C15_AssemblyFailure ==
    Quiet => \A t \in DOMAIN results :
               (AllUpstreamSucceeded(t) /\ NotSkipped(t) /\ MappingRaises(t))
               => results[t] = TaskResult("FAILED", None, "TypeError") /\ calls[t] = 0

FailedOrSkipped == {"FAILED", "UPSTREAM_FAILED", "SKIPPED", "UPSTREAM_SKIPPED"}

Resolved(res, u) == u \in DOMAIN res /\ res[u].state \in TerminalStates

(* The work function of a task without skip gate and without upstream      *)
(* tasks runs whenever the task is resolved.                               *)
Unconditional(u) == UpstreamSet(u) = {} /\ prog[u].skip.kind = "bool" /\ ~prog[u].skip.val

(* C16 as stated: whenever the resolution of a target returns and some     *)
(* upstream task A of the target is failed or skipped, every other         *)
(* upstream task B that does not depend on A has its own terminal Result.  *)
C16_IndependentBranches ==
    [][\A f \in DOMAIN frames :
         LET t == frames[f].task
         IN (cur = f /\ Returned(frames', f))
            => \A A \in UpstreamSet(t) : \A B \in UpstreamSet(t) \ {A} :
                 (/\ A \in DOMAIN results'
                  /\ results'[A].state \in FailedOrSkipped
                  /\ A \notin Ancestors(B))
                 => Resolved(results', B)]_vars

(* C16 amended: when a resolution that went through its fan-out comes to   *)
(* the failure and skip checks with a failed or skipped upstream task,     *)
(* every upstream task of the target has its own terminal Result, and the  *)
(* work function of an upstream task that nothing holds back has run.      *)
C16_IndependentBranchesAfterFanOut ==
    \A f \in DOMAIN frames :
        LET t == frames[f].task
        IN (/\ cur = f
            /\ frames[f].pc \in {"propagate_failed", "propagate_skipped"}
            /\ \E A \in UpstreamSet(t) : A \in DOMAIN results /\ results[A].state \in FailedOrSkipped)
           => \A B \in UpstreamSet(t) :
                /\ Resolved(results, B)
                /\ Unconditional(B) => calls[B] >= 1

C16_Witness ==
    \E f \in DOMAIN frames :
        LET t == frames[f].task
        IN /\ cur = f
           /\ frames[f].pc = "propagate_failed"
           /\ \E A \in UpstreamSet(t) : \E B \in UpstreamSet(t) :
                /\ Resolved(results, A) /\ results[A].state = "FAILED"
                /\ Resolved(results, B) /\ results[B] = TaskResult("SUCCEEDED", 1, NoError)
                /\ calls[B] = 1

(* Every DagRun.run call made so far has returned to the caller. *)
AllReturned ==
    /\ cur = 0
    /\ ready = <<>>
    /\ \A f \in DOMAIN frames : frames[f].pc = "done"

TopLevelDone(f) == frames[f].parent = 0 /\ frames[f].pc = "done"

(* The tasks reached from t through the upstream links of resolved tasks   *)
(* that were not stored SKIPPED.                                           *)
RECURSIVE ReachedFrom(_)
ReachedFrom(t) ==
    IF Resolved(results, t) /\ results[t].state # "SKIPPED"
    THEN UpstreamSet(t) \cup UNION {ReachedFrom(u) : u \in UpstreamSet(t)}
    ELSE {}

(* C17 as stated: every DagRun.run call eventually returns, and once it    *)
(* has returned the target and every task reachable from it through        *)
(* upstream links have a terminal Result.                                  *)
C17_Termination ==
    /\ <>[]AllReturned
    /\ [](\A f \in DOMAIN frames :
            TopLevelDone(f)
            => \A u \in {frames[f].task} \cup Ancestors(frames[f].task) : Resolved(results, u))

(* C17 amended: every DagRun.run call eventually returns, and once it has  *)
(* returned the target has a terminal Result and so has every task reached *)
(* from it through the upstream links of tasks that were not stored        *)
(* SKIPPED.                                                                *)
C17_TerminationResolved ==
    /\ <>[]AllReturned
    /\ [](\A f \in DOMAIN frames :
            TopLevelDone(f)
            => \A u \in {frames[f].task} \cup ReachedFrom(frames[f].task) : Resolved(results, u))

C17_Witness ==
    \E f \in DOMAIN frames :
        /\ TopLevelDone(f)
        /\ AllReturned
        /\ Cardinality(ReachedFrom(frames[f].task)) >= 2
        /\ \E u \in ReachedFrom(frames[f].task) : prog[u].suspends
        /\ \A u \in ReachedFrom(frames[f].task) : Resolved(results, u)

(* C18 as stated: every stored Result with a terminal state has exactly    *)
(* one of value and error populated.                                       *)
C18_ResultShape ==
    \A t \in DOMAIN results :
        results[t].state \in TerminalStates
        => (results[t].value # None) # (results[t].error # NoError)

(* C18 amended: every stored Result has a terminal state and never both a  *)
(* value and an error: FAILED holds an error and no value, SUCCEEDED holds *)
(* no error and whatever the work function returned (None included), and   *)
(* SKIPPED, UPSTREAM_FAILED and UPSTREAM_SKIPPED hold neither.             *)
C18_ResultShapeByState ==
    \A t \in DOMAIN results :
        LET r == results[t]
        IN /\ r.state \in TerminalStates
           /\ ~(r.value # None /\ r.error # NoError)
           /\ r.state = "FAILED" => r.error # NoError /\ r.value = None
           /\ r.state = "SUCCEEDED" => r.error = NoError
           /\ r.state \in {"SKIPPED", "UPSTREAM_FAILED", "UPSTREAM_SKIPPED"}
              => r.value = None /\ r.error = NoError

C18_Witness ==
    /\ AllReturned
    /\ \E t \in DOMAIN results : results[t] = TaskResult("FAILED", None, "ValueError")
    /\ \E t \in DOMAIN results : results[t] = TaskResult("SKIPPED", None, NoError)
    /\ \E t \in DOMAIN results : results[t] = TaskResult("UPSTREAM_FAILED", None, NoError)

C20_UpstreamTasks ==
    [][\A f \in DOMAIN frames :
         LET t == frames[f].task
             ups == upstream_tasks(t)
             started == DOMAIN frames' \ DOMAIN frames
         IN (cur = f /\ frames[f].pc = "fanout")
            => /\ Range(ups) = UpstreamSet(t)
               /\ \A i \in DOMAIN ups : \A j \in DOMAIN ups : ups[i] = ups[j] => i = j
               /\ \A u \in UpstreamSet(t) :
                    Cardinality({g \in started : frames'[g].task = u}) = 1]_vars

(* ---------------------------------------------------------------------- *)
(* Properties of the trigger rules (under TriggerSpec)                    *)
(* ---------------------------------------------------------------------- *)

(* The caller has called next_state on the given rule. *)
NextStateOf(rule) == called.name = "next_state" /\ called.self = rule

(* The predecessor states handed over, as a set. *)
Predecessors == {called.args[i] : i \in DOMAIN called.args}

InFlight == Predecessors \cap {"CREATED", "WAITING", "RUNNING"} # {}

AnySkipped == Predecessors \cap {"SKIPPED", "UPSTREAM_SKIPPED"} # {}

AnyFailed == Predecessors \cap {"FAILED", "UPSTREAM_FAILED"} # {}

(* C24: for every trigger rule, if any predecessor state is CREATED,      *)
(* WAITING or RUNNING then next_state returns WAITING.                    *)
C24_WaitingRule ==
    \A rule \in Trigger : (NextStateOf(rule) /\ InFlight) => called.value = "WAITING"

C24_Witness ==
    /\ NextStateOf("ALL_DONE")
    /\ called.args = <<"SUCCEEDED", "RUNNING">>
    /\ called.value = "WAITING"

AllSucceeded == \A i \in DOMAIN called.args : called.args[i] = "SUCCEEDED"

AllFailed == \A i \in DOMAIN called.args : called.args[i] \in {"FAILED", "UPSTREAM_FAILED"}

(* C25: under ALL_SUCCESS, for every sequence of predecessor states,       *)
(* next_state returns RUNNING if and only if every predecessor state is    *)
(* SUCCEEDED; otherwise, all being terminal, it returns UPSTREAM_SKIPPED   *)
(* if any predecessor is skipped, else UPSTREAM_FAILED if any failed.      *)
C25_AllSuccess ==
    NextStateOf("ALL_SUCCESS") =>
        /\ (called.value = "RUNNING") <=> AllSucceeded
        /\ (~AllSucceeded /\ ~InFlight /\ AnySkipped) => called.value = "UPSTREAM_SKIPPED"
        /\ (~AllSucceeded /\ ~InFlight /\ ~AnySkipped /\ AnyFailed)
               => called.value = "UPSTREAM_FAILED"

(* C26: under ALL_FAILED, next_state returns RUNNING if and only if every  *)
(* predecessor state is FAILED or UPSTREAM_FAILED; for any other           *)
(* all-terminal list it returns UPSTREAM_SKIPPED if any predecessor is     *)
(* skipped, else UPSTREAM_FAILED if any predecessor failed.                *)
C26_AllFailed ==
    NextStateOf("ALL_FAILED") =>
        /\ (called.value = "RUNNING") <=> AllFailed
        /\ (~AllFailed /\ ~InFlight /\ AnySkipped) => called.value = "UPSTREAM_SKIPPED"
        /\ (~AllFailed /\ ~InFlight /\ ~AnySkipped /\ AnyFailed)
               => called.value = "UPSTREAM_FAILED"

C26_Witness ==
    /\ NextStateOf("ALL_FAILED")
    /\ called.args = <<"FAILED", "SKIPPED">>
    /\ called.value = "UPSTREAM_SKIPPED"

AllTerminal == Predecessors \subseteq TerminalStates

(* C27 as stated: under ALL_DONE, next_state returns RUNNING if and only   *)
(* if every predecessor is in a terminal state, and FAILED otherwise.      *)
C27_AllDone ==
    NextStateOf("ALL_DONE") =>
        called.value = IF AllTerminal THEN "RUNNING" ELSE "FAILED"

(* C27: under ALL_DONE, next_state returns RUNNING if and only if every    *)
(* predecessor is in a terminal state, and WAITING otherwise; it never     *)
(* returns FAILED.                                                         *)
C27_AllDoneOrWaiting ==
    NextStateOf("ALL_DONE") =>
        called.value = IF AllTerminal THEN "RUNNING" ELSE "WAITING"

C27_Witness ==
    /\ NextStateOf("ALL_DONE")
    /\ called.args = <<"SKIPPED", "CREATED">>
    /\ called.value = "WAITING"

(* C28: under ONE_SUCCESS with all predecessors terminal, next_state       *)
(* returns RUNNING iff at least one predecessor is SUCCEEDED; if none      *)
(* succeeded and none failed it returns UPSTREAM_FAILED; otherwise FAILED. *)
C28_OneSuccess ==
    (NextStateOf("ONE_SUCCESS") /\ AllTerminal) =>
        called.value = IF "SUCCEEDED" \in Predecessors THEN "RUNNING"
                       ELSE IF ~AnyFailed THEN "UPSTREAM_FAILED"
                       ELSE "FAILED"

C28_Witness ==
    /\ NextStateOf("ONE_SUCCESS")
    /\ called.args = <<"FAILED", "SUCCEEDED">>
    /\ called.value = "RUNNING"

C30_OneFailedAsDocumented ==
    (NextStateOf("ONE_FAILED") /\ AllTerminal /\ AnyFailed) => called.value = "RUNNING"

(* C37: for every trigger rule and every list of predecessor states, the   *)
(* empty list included, next_state returns WAITING only if some            *)
(* predecessor is CREATED, WAITING or RUNNING, so that a loop polling      *)
(* next_state ends once all predecessors are terminal.                     *)
C37_WaitingOnlyInFlight ==
    \A rule \in Trigger : (NextStateOf(rule) /\ called.value = "WAITING") => InFlight

(* ---------------------------------------------------------------------- *)
(* Properties of the Task objects (under PropertySpec, InstanceSpec)      *)
(* ---------------------------------------------------------------------- *)

(* The caller has read the named property, of a task whose gate is of the *)
(* given kind.                                                            *)
HasRead(name, kind) ==
    /\ called.name = name
    /\ prog[called.self].skip.kind = kind

ReturnedValue(v) == called.value = v /\ called.error = NoError

RaisedUsageError == called.error = "ValueError"

SkipAccessorValues ==
    /\ HasRead("has_skip_task", "task") => ReturnedValue("True")
    /\ HasRead("has_skip_task", "bool") => ReturnedValue("False")
    /\ HasRead("should_be_skipped", "bool") =>
           ReturnedValue(IF prog[called.self].skip.val THEN "True" ELSE "False")
    /\ HasRead("should_be_skipped", "task") => RaisedUsageError
    /\ HasRead("skip_task", "task") => ReturnedValue(prog[called.self].skip.id)
    /\ HasRead("skip_task", "bool") => RaisedUsageError
    /\ HasRead("needs_to_run_skip_task_first", "task") =>
           ReturnedValue(IF prog[called.self].check_skip_first THEN "True" ELSE "False")
    /\ HasRead("needs_to_run_skip_task_first", "bool") => ReturnedValue("False")

(* C22: has_skip_task is true iff the gate is a task; should_be_skipped   *)
(* returns the static boolean and raises ValueError when the gate is a    *)
(* task; skip_task returns the gate task and raises ValueError when the   *)
(* gate is a static boolean; needs_to_run_skip_task_first is true iff the *)
(* gate is a task and check_skip_first is set.  A read that raises        *)
(* changes nothing of the declarations, of a run or of the objects.       *)
C22_SkipAccessors ==
    /\ []SkipAccessorValues
    /\ [][called'.error = "ValueError" => UNCHANGED <<dagrun, instances>>]_vars

C22_Witness ==
    /\ HasRead("should_be_skipped", "task")
    /\ prog[called.self].check_skip_first
    /\ RaisedUsageError

TaskObjects == DOMAIN instances.tasks

RunObjects == DOMAIN instances.runs

IdOf(o) == instances.tasks[o].id

(* The result store seen through DagRun object r. *)
ResultsOf(r) == instances.stores[instances.runs[r]]

(* Run r holds a Result under a task with the id of object o. *)
Known(r, o) == \E k \in DOMAIN ResultsOf(r) : IdOf(k) = IdOf(o)

IdentityById ==
    \A o1 \in TaskObjects, o2 \in TaskObjects :
        /\ __eq__(o1, o2) <=> IdOf(o1) = IdOf(o2)
        /\ __eq__(o1, o2) => __hash__(o1) = __hash__(o2)

OneEntryPerId ==
    \A r \in RunObjects : \A k1 \in DOMAIN ResultsOf(r), k2 \in DOMAIN ResultsOf(r) :
        IdOf(k1) = IdOf(k2) => k1 = k2

(* A call of DagRun.run on a task whose id is already in the store logs   *)
(* "already completed", enters no work function and leaves every store    *)
(* as it was.                                                             *)
SecondIsAlreadyResolved ==
    (instances' # instances /\ Known(instances'.last.run, instances'.last.task)) =>
        /\ instances'.last.log = "already completed"
        /\ instances'.work = instances.work
        /\ instances'.stores = instances.stores

(* C21: two Task objects are equal iff their ids are equal, and equal     *)
(* objects have equal hashes; so two distinct Task objects with the same  *)
(* id share one result-store entry in a run, and the second one requested *)
(* is treated as already resolved without running its work function.      *)
C21_TaskIdentity ==
    /\ [](IdentityById /\ OneEntryPerId)
    /\ [][SecondIsAlreadyResolved]_vars

C21_Witness ==
    \E o1 \in TaskObjects, o2 \in TaskObjects :
        /\ o1 # o2
        /\ IdOf(o1) = IdOf(o2)
        /\ instances.tasks[o1].cls # instances.tasks[o2].cls
        /\ instances.last = [run |-> 1, task |-> o2, log |-> "already completed"]
        /\ DOMAIN ResultsOf(1) = {o1}
        /\ instances.work[o2] = 0

(* A call of DagRun.run through one DagRun object leaves the store of     *)
(* every other DagRun object as it was, and executes the task if this     *)
(* run's own store has no Result for it, whatever the other stores hold.  *)
RunsAreIsolated ==
    \A r \in RunObjects, o \in TaskObjects :
        (instances' # instances /\ instances'.last.run = r /\ instances'.last.task = o) =>
            /\ \A other \in RunObjects \ {r} : ResultsOf(other)' = ResultsOf(other)
            /\ ~Known(r, o) =>
                  /\ instances'.work[o] = instances.work[o] + 1
                  /\ Known(r, o)'

(* C23: two DagRun instances executing the same Task objects have         *)
(* independent result stores: resolving a task in one run neither adds    *)
(* nor changes any Result in the other run, and a task already resolved   *)
(* in run 1 is executed again when requested in run 2.                    *)
C23_RunIsolation == [][RunsAreIsolated]_vars

C23_Witness ==
    \E o \in TaskObjects :
        /\ instances.tasks[o].cls = "IncrementTask"
        /\ instances.last = [run |-> 2, task |-> o, log |-> "succeeded"]
        /\ o \in DOMAIN ResultsOf(1) /\ ResultsOf(1)[o].value = 1
        /\ o \in DOMAIN ResultsOf(2) /\ ResultsOf(2)[o].value = 2
        /\ instances.work[o] = 2

(* C31: under NONE_SKIPPED with all predecessors terminal, next_state      *)
(* returns FAILED if any predecessor is SKIPPED or UPSTREAM_SKIPPED and    *)
(* RUNNING otherwise.                                                      *)
C31_NoneSkipped ==
    (NextStateOf("NONE_SKIPPED") /\ AllTerminal) =>
        called.value = IF AnySkipped THEN "FAILED" ELSE "RUNNING"

C31_Witness ==
    /\ NextStateOf("NONE_SKIPPED")
    /\ called.args = <<"FAILED", "UPSTREAM_SKIPPED">>
    /\ called.value = "FAILED"

(* ---------------------------------------------------------------------- *)
(* Properties of one run (under Spec), continued                          *)
(* ---------------------------------------------------------------------- *)

(* C32: when the run is over, a task whose Result is SKIPPED,              *)
(* UPSTREAM_SKIPPED or UPSTREAM_FAILED never had its work function         *)
(* invoked in the run, and a task whose Result is SUCCEEDED or FAILED had  *)
(* its work function invoked exactly once.                                 *)
C32_StateMachine ==
    Quiet => \A t \in DOMAIN results :
               /\ results[t].state \in {"SKIPPED", "UPSTREAM_SKIPPED", "UPSTREAM_FAILED"}
                  => calls[t] = 0
               /\ results[t].state \in {"SUCCEEDED", "FAILED"} => calls[t] = 1

HasMappedInput(t) == \E i \in DOMAIN prog[t].args : prog[t].args[i].kind = "transform"

(* The three checks after the fan-out let the task through. *)
ChecksPass(t) ==
    /\ ~HasFailed(results, t)
    /\ ~HasSkipped(results, t)
    /\ ~(LateGate(t) /\ IsValueTruthy(results[prog[t].skip.id].value))

(* C33: the inputs of a task are assembled (mapping functions and          *)
(* fallbacks applied to upstream Results) only when the failure, skip and  *)
(* late-skip checks let the task through; and no Result that becomes       *)
(* UPSTREAM_FAILED, UPSTREAM_SKIPPED or SKIPPED was FAILED before.         *)
C33_StepOrdering ==
    [][/\ \A f \in DOMAIN frames :
            (cur = f /\ frames[f].pc = "assemble" /\ frames'[f].pc # "assemble"
                /\ HasMappedInput(frames[f].task))
            => ChecksPass(frames[f].task)
       /\ \A t \in DOMAIN results :
            results'[t].state \in {"UPSTREAM_FAILED", "UPSTREAM_SKIPPED", "SKIPPED"}
            => results[t].state # "FAILED"]_vars

(* C35: every Result ever present in the store has a terminal state        *)
(* (CREATED, WAITING and RUNNING are never stored); a FAILED Result always *)
(* carries an error, and a SKIPPED, UPSTREAM_SKIPPED or UPSTREAM_FAILED    *)
(* Result carries neither value nor error.                                 *)
C35_StoredResults ==
    \A t \in DOMAIN results :
        /\ results[t].state \in {"SKIPPED", "SUCCEEDED", "FAILED", "UPSTREAM_FAILED",
                                 "UPSTREAM_SKIPPED"}
        /\ results[t].state \notin {"CREATED", "WAITING", "RUNNING"}
        /\ results[t].state = "FAILED" => results[t].error # NoError
        /\ results[t].state \in {"SKIPPED", "UPSTREAM_SKIPPED", "UPSTREAM_FAILED"}
           => results[t] = TaskResult(results[t].state, None, NoError)

C35_Witness ==
    /\ \E t \in DOMAIN results : results[t].state = "FAILED" /\ results[t].error # NoError
    /\ \E t \in DOMAIN results : results[t] = TaskResult("UPSTREAM_SKIPPED", None, NoError)
    /\ \E t \in DOMAIN results : results[t] = TaskResult("SKIPPED", None, NoError)

(* The gate of t is a task whose stored value is falsy. *)
GateIsFalsy(t) ==
    /\ prog[t].skip.kind = "task"
    /\ prog[t].skip.id \in DOMAIN results
    /\ ~IsValueTruthy(results[prog[t].skip.id].value)

(* The value a named input takes from the store: the upstream value, or   *)
(* the mapping function applied to it.                                    *)
InputValue(a) ==
    IF a.kind = "static" THEN a.val
    ELSE IF a.kind = "task" THEN results[a.id].value
    ELSE MapValue(a.steps[1].f, results[a.id].value)

InputRaises(a) ==
    /\ a.kind = "transform"
    /\ a.steps[1].alt # None \/ results[a.id].value = None

(* What a task ends with once its gate does not skip it, told from the    *)
(* Results of its upstream tasks alone; check_skip_first plays no part.   *)
EndsAs(t, r) ==
    LET kwargs == [i \in DOMAIN prog[t].args |-> InputValue(prog[t].args[i])]
    IN IF HasFailed(results, t) THEN r = UpstreamFailedResult
       ELSE IF HasSkipped(results, t) THEN r = UpstreamSkippedResult
       ELSE IF \E i \in DOMAIN prog[t].args : InputRaises(prog[t].args[i])
       THEN r.state = "FAILED" /\ r.value = None
       ELSE IF Raised(t, kwargs) # NoError
       THEN r = TaskResult("FAILED", None, Raised(t, kwargs))
       ELSE r = TaskResult("SUCCEEDED", kwargs[1] + 1, NoError)

(* Tasks like the gated task of the tests: AddOneTask over one input that *)
(* is a task or a single mapping of a task.                               *)
GatedAddOne(t) ==
    /\ prog[t].skip.kind = "task"
    /\ prog[t].work = "addone"
    /\ Len(prog[t].args) = 1
    /\ prog[t].args[1].kind = "transform" => Len(prog[t].args[1].steps) = 1

(* C36: when check_skip_first is set and the gate's value is falsy, the    *)
(* resolution goes on to the other upstream tasks, which are all resolved  *)
(* when it has returned; the invocation of the gate started by the fan-out *)
(* finds it already completed and does not run its work function; and the *)
(* gated task ends with the state and value told by its upstream Results   *)
(* alone, the same with check_skip_first set and not set.                  *)
C36_GateFirstFalsy ==
    /\ \A g \in DOMAIN frames :
          LET p == frames[g].parent
          IN (p # 0 /\ ~frames[g].inline
                /\ prog[frames[p].task].skip.kind = "task"
                /\ prog[frames[p].task].check_skip_first
                /\ frames[g].task = prog[frames[p].task].skip.id)
             => /\ frames[g].pc \in {"start", "returned", "done"}
                /\ frames[g].pc # "start" => frames[g].log = "already completed"
                /\ GateIsFalsy(frames[p].task)
    /\ \A f \in DOMAIN frames :
          LET t == frames[f].task
          IN (Returned(frames, f) /\ GatedAddOne(t) /\ GateIsFalsy(t))
             => /\ UpstreamSet(t) \subseteq DOMAIN results
                /\ t \in DOMAIN results
                /\ EndsAs(t, results[t])

C36_Witness ==
    /\ Quiet
    /\ \E t \in DOMAIN results :
          /\ GatedAddOne(t) /\ prog[t].check_skip_first /\ GateIsFalsy(t)
          /\ results[prog[t].skip.id].state = "SUCCEEDED"
          /\ results[t].state = "SUCCEEDED" /\ results[t].value = 2
          /\ calls[prog[t].skip.id] = 1
          /\ \E g \in DOMAIN frames :
                /\ frames[g].task = prog[t].skip.id /\ ~frames[g].inline
                /\ frames[g].parent # 0 /\ frames[g].log = "already completed"

(* ---------------------------------------------------------------------- *)
(* Properties of runs with two suspending work functions (ParallelSpec)   *)
(* ---------------------------------------------------------------------- *)

Independent(t, u) == t # u /\ t \notin Ancestors(u) /\ u \notin Ancestors(t)

(* The work function of the invocation has begun and has not finished. *)
InWork(f) == frames[f].pc = "sleeping"

(* C34: two tasks without direct or transitive dependency are not          *)
(* serialized: a resolution that has started one upstream task has started *)
(* them all before any of them runs, and whenever the work functions of    *)
(* two independent tasks have both begun and neither has finished, either  *)
(* of them can be the next to finish.                                      *)
C34_NotSerialized ==
    /\ \A p \in DOMAIN frames :
          StartedBy(frames[p].task) # {} =>
              \A u \in UpstreamSet(frames[p].task) :
                  \E g \in DOMAIN frames : frames[g].task = u /\ frames[g].parent # 0
    /\ \A f \in DOMAIN frames, g \in DOMAIN frames :
          (cur = 0 /\ InWork(f) /\ InWork(g) /\ Independent(frames[f].task, frames[g].task))
          => ENABLED TimerFires(f) /\ ENABLED TimerFires(g)

C34_Witness ==
    \E f \in DOMAIN frames, g \in DOMAIN frames :
        /\ frames[f].task = "a" /\ frames[g].task = "b"
        /\ Independent("a", "b")
        /\ frames[f].parent = frames[g].parent /\ frames[f].parent # 0
        /\ InWork(f) /\ InWork(g)
        /\ calls["a"] = 1 /\ calls["b"] = 1
        /\ DOMAIN results = {}

(* ---------------------------------------------------------------------- *)
(* Properties of the Dag container and of its runs (DagSpec, PollSpec)    *)
(* ---------------------------------------------------------------------- *)

GraphEdges == {graph.edges[i] : i \in DOMAIN graph.edges}

(* The pairs of nodes joined by a path of one edge or more, of at most    *)
(* k + 1 edges.                                                           *)
RECURSIVE Paths(_)
Paths(k) ==
    IF k = 0 THEN GraphEdges
    ELSE LET P == Paths(k - 1)
         IN P \cup {<<x[1][1], x[2][2]>> : x \in {y \in P \X GraphEdges : y[1][2] = y[2][1]}}

Acyclic == \A p \in Paths(Len(graph.nodes)) : p[1] # p[2]

(* C39: in every state reached by calls of Dag.add and Dag.add_dependency, *)
(* calls that raised included, the graph is acyclic; and a call of         *)
(* add_dependency that raises DagDefinitionError leaves nodes and edges as *)
(* they were before the call.                                              *)
C39_Acyclic ==
    /\ []Acyclic
    /\ [][graph'.error = "DagDefinitionError"
          => graph'.nodes = graph.nodes /\ graph'.edges = graph.edges]_vars

(* C38: no task instance raises out of TaskInstance._execute and          *)
(* DagRun.__init__ raises nothing, whatever state the trigger returns      *)
(* once the predecessors are terminal (RUNNING, UPSTREAM_FAILED,           *)
(* UPSTREAM_SKIPPED, FAILED); a task instance that has completed is in a   *)
(* terminal state, and so is every task instance of a DagRun that has      *)
(* finished.                                                               *)
C38_ExecuteCompletes ==
    /\ poll.error = NoError
    /\ \A i \in DOMAIN poll.tis :
          /\ poll.tis[i].pc # "raised"
          /\ poll.tis[i].pc = "done" => poll.tis[i].state \in TerminalStates
          /\ poll.state = "SUCCEEDED" => poll.tis[i].state \in TerminalStates

(* C40: DagRun.raise_any_error raises DagFailedError exactly when a task   *)
(* instance of the run ended FAILED; a run without a FAILED task instance  *)
(* (one whose only failing task has soft_fail and ended SKIPPED) does not  *)
(* raise.                                                                  *)
C40_RaiseIffFailed ==
    poll.raised # ""
    => (poll.raised = "DagFailedError"
        <=> \E i \in DOMAIN poll.tis : poll.tis[i].state = "FAILED")

====
